---- MODULE Spec2Model ----
(***************************************************************************)
(* Interrupt-mediated I/O drivers of the STM32F4 bare-metal layer:         *)
(* USART2 ring-buffered transport, ADC handshake, EXTI dispatch, TIM1 PWM. *)
(* The foreground is one thread of control (pc); an interrupt handler runs *)
(* to completion between any two shared-memory accesses of the foreground. *)
(***************************************************************************)
EXTENDS Integers, Sequences, FiniteSets, TLC

(***************************************************************************)
(* Bounds of the model.                                                    *)
(***************************************************************************)
\* log2 of the ring-buffer size explored by SpecUart (the build uses 8)
BufBits == 1
\* longest ordinary write/read request, in bytes
MaxLen == 2
\* foreground calls per behaviour
MaxCalls == 2
\* interrupt-handler invocations per behaviour
MaxIsr == 3
\* interrupt-handler invocations that see a line-error flag
MaxErrIsr == 1
\* request of the full-size scenario: bytes offered to write, then to read
FullLen == 300
\* bytes the receiver delivers beyond the buffer size in the scenario
FullRxExtra == 2
\* conversions the ADC completes per behaviour
MaxConv == 3
\* foreground ADC calls per behaviour
MaxAdcCalls == 3
\* EXTI: registrations, hardware edges and dispatches per behaviour
MaxReg == 2
MaxEdges == 3
MaxDisp == 1
\* EXTI: dispatches per behaviour where a later dispatch follows an earlier one
MaxRedisp == 2
\* EXTI: loop iterations of one dispatch that are followed (a uint8_t counts
\* 256 values)
MaxVisits == 257
\* TIM1 PWM: driver calls per behaviour
MaxPwmCalls == 3
\* SysTick: driver calls and tick steps per behaviour; SYSTICK_Init is among
\* the first MaxTickInits calls
MaxTickCalls == 3
MaxTickInits == 2
MaxTickIrqs == 2
\* SysTick: tick interrupts per behaviour where SYSTICK_GetTimeUs is followed
\* through its three attempts
MaxUsIrqs == 3

(***************************************************************************)
(* Program constants.                                                      *)
(***************************************************************************)
UART_BUFFER_SIZE == 256
U8 == 256
U16 == 65536

Min(a, b) == IF a <= b THEN a ELSE b

Max(a, b) == IF a >= b THEN a ELSE b

\* bitwise AND of two naturals, as the C operator & computes it
RECURSIVE BitAnd(_, _)
BitAnd(a, b) ==
    IF a = 0 \/ b = 0 THEN 0
    ELSE (a % 2) * (b % 2) + 2 * BitAnd(a \div 2, b \div 2)

VARIABLES
    \* ---- USART2 driver state
    bufSize,     \* UART_BUFFER_SIZE of the build under analysis
    rx,          \* usart2_rx_rb: [buf, head, tail, drop_cnt]
    tx,          \* usart2_tx_rb: [buf, head, tail, drop_cnt]
    err,         \* USART2_H error counters: [ore, fe, ne, pe]
    cr1,         \* USART2->CR1, the set of bits that are 1
    \* ---- foreground thread
    pc,          \* position of the foreground
    op,          \* the call in progress: [name, len]
    cnt,         \* write_cnt / read_cnt
    f_head,      \* local head
    f_tail,      \* local tail
    f_cr1,       \* CR1 value loaded by the read-modify-write CR1 |= TXEIE
    out,         \* the caller's output buffer, as filled by usart2_read
    ret,         \* value returned by the last completed call
    \* ---- history (not read by the program)
    txPushed,    \* bytes usart2_write stored in the TX buffer, in order
    txWire,      \* bytes the handler wrote to USART2->DR, in order
    rxPushed,    \* bytes the handler stored in the RX buffer, in order
    rxPopped,    \* bytes usart2_read copied out, in order
    txOffered,   \* bytes offered to usart2_write so far
    rxArrived,   \* data-register reads by the handler so far
    rxRecv,      \* bytes the handler received without a line error
    rxErrBytes,  \* bytes the handler discarded because of a line error
    calls,       \* completed or started foreground calls
    isrs,        \* handler invocations
    errIsrs,     \* handler invocations that saw a line-error flag
    pre,         \* driver state at the entry of the call in progress
    isrInCall,   \* TRUE when a handler ran since the call was entered
    \* ---- ADC driver state (ADC1_IN0_H and the ADC1 registers)
    adc_mode,        \* ADC1_IN0_CFG.mode
    adc_data_ready,  \* adc_h->adc_data_ready
    last_reading,    \* adc_h->last_reading
    adc_eoc,         \* ADC1->SR bit EOC
    adc_dr,          \* ADC1->DR
    adc_cont,        \* ADC1->CR2 bit CONT
    adc_busy,        \* a conversion is in progress
    \* ---- ADC history
    adc_convs,       \* conversions completed by the hardware
    adc_seen,        \* completions the handler observed
    adc_mark,        \* conversions completed when adc_start last cleared the flag
    adc_over,        \* samples the handler overwrote before any read copied them
    adc_ok,          \* successful adc_read calls
    adc_ev           \* the last event on the ready flag: init, start, eoc, read_ok

uartVars == <<bufSize, rx, tx, err, cr1, pc, op, cnt, f_head, f_tail, f_cr1,
              out, ret, txPushed, txWire, rxPushed, rxPopped, txOffered,
              rxArrived, rxRecv, rxErrBytes, calls, isrs, errIsrs, pre,
              isrInCall>>

adcVars == <<adc_mode, adc_data_ready, last_reading, adc_eoc, adc_dr,
             adc_cont, adc_busy, adc_convs, adc_seen, adc_mark, adc_over,
             adc_ok, adc_ev>>

VARIABLES
    \* ---- EXTI driver state
    callbk_array,      \* exti.c: the 16 registered callbacks ("NULL" = none)
    callbk_arg_array,  \* exti.c: the 16 registered callback arguments
    exti_pr,           \* EXTI->PR: the set of lines whose pending bit is set
    \* ---- foreground exti_register
    r_pc,              \* "idle", "r_arg" (callback stored, argument not), "done"
    r_op,              \* the arguments of the call in progress
    r_ret,             \* its return value
    r_pre,             \* the two tables when the call was entered
    \* ---- interrupt-level exti_dispatch
    d_pc,              \* "idle", "d_loop", "done"
    d_op,              \* [first, last] of the dispatch in progress
    d_line,            \* the loop variable (uint8_t)
    d_pending,         \* the local copy of EXTI->PR
    d_invoked,         \* the callbacks invoked so far: <<line, callback, arg>>
    d_pre,             \* pending register and tables when the dispatch was entered
    d_latched,         \* the lines whose bit the hardware set during the dispatch
    d_carried,         \* the lines latched during the previous dispatch and pending at its return
    d_visits,          \* iterations the loop of the dispatch has executed
    d_oob,             \* indices outside the tables that the dispatch has used
    exti_env,          \* what the build leaves open: [shl32, beyond]
    e_regs, e_edges, e_disps   \* how many registrations, edges, dispatches

extiVars == <<callbk_array, callbk_arg_array, exti_pr, r_pc, r_op, r_ret,
              r_pre, d_pc, d_op, d_line, d_pending, d_invoked, d_pre,
              d_latched, d_carried, d_visits, d_oob, exti_env, e_regs,
              e_edges, e_disps>>

VARIABLES
    \* ---- TIM1 PWM driver state
    pwm_arr,       \* PWM_H.arr: the auto-reload value the handle stores
    tim1_psc,      \* TIM1->PSC
    tim1_arr,      \* TIM1->ARR
    tim1_ccr,      \* TIM1->CCR1..CCR3
    tim1_cms,      \* TIM1->CR1.CMS
    tim1_moe,      \* TIM1->BDTR.MOE
    tim1_cen,      \* TIM1->CR1.CEN
    tim1_ccer,     \* TIM1->CCER: the channels whose CCxE bit is set
    gpio_done,     \* the channels whose pin gpio_init_pin has configured
    \* ---- the PWM call in progress
    p_pc,          \* "idle", "p_div", "p_loop", "done", "fault"
    p_op,          \* its name and arguments
    p_half,        \* half_ticks
    p_psc,         \* psc
    p_ret,         \* its return value
    p_pre,         \* the compare registers when the call was entered
    p_calls        \* how many calls were made

pwmVars == <<pwm_arr, tim1_psc, tim1_arr, tim1_ccr, tim1_cms, tim1_moe,
             tim1_cen, tim1_ccer, gpio_done, p_pc, p_op, p_half, p_psc, p_ret, p_pre,
             p_calls>>

VARIABLES
    \* ---- SysTick driver state
    s_cfg,         \* the configuration s_cfg points to (ptr "NULL": none)
    s_h,           \* the handle s_h points to, or "NULL"
    tick_count,    \* SYSTICK_H.tick_count, a uint32_t
    s_load,        \* s_load
    syst_load,     \* SysTick->LOAD
    syst_val,      \* SysTick->VAL
    syst_ctrl,     \* SysTick->CTRL: the bits that are set
    syst_prio,     \* the SysTick exception priority
    syst_pend,     \* the SysTick exception is pending
    \* ---- the SysTick call in progress
    k_pc,          \* "idle", "u_t1", "u_val", "u_t2", "u_fb", "done"
    k_op,          \* its name and arguments
    k_ret,         \* its return value
    k_pre,         \* the driver state and registers when it was entered
    k_i,           \* SYSTICK_GetTimeUs: i
    k_t1,          \* SYSTICK_GetTimeUs: t1
    k_val,         \* SYSTICK_GetTimeUs: val
    k_mark,        \* an earlier timestamp the caller kept
    \* ---- history
    n_irq,         \* handler invocations since tick_count was last zeroed
    k_inited,      \* the last SYSTICK_Init that wrote driver state succeeded
    k_calls,       \* how many calls were made
    k_irqs         \* how many tick steps were taken

tickRegs == <<s_cfg, s_h, tick_count, s_load, syst_load, syst_val, syst_ctrl,
              syst_prio>>

tickVars == <<tickRegs, syst_pend, k_pc, k_op, k_ret, k_pre, k_i, k_t1, k_val,
              k_mark, n_irq, k_inited, k_calls, k_irqs>>

VARIABLES
    \* ---- baud_rate_config
    b_pc,          \* "idle", "done", "fault"
    b_cfg,         \* its argument: [ptr, usart_pclk_hz, usart_baud]
    b_ret          \* its return value, a uint32_t

brrVars == <<b_pc, b_cfg, b_ret>>

vars == <<uartVars, adcVars, extiVars, pwmVars, tickVars, brrVars>>

\* the variables only the USART2 driver uses
uartOnly == <<bufSize, rx, tx, err, cr1, cnt, f_head, f_tail, f_cr1,
              txPushed, txWire, rxPushed, rxPopped, txOffered, rxArrived,
              rxRecv, rxErrBytes, errIsrs>>

(***************************************************************************)
(* USART2: types and helpers                                               *)
(***************************************************************************)
BUFFER_MASK == bufSize - 1

\* a ring_buffer_t after memset(.., 0, ..) / static zero initialisation
ring_buffer_t == [buf |-> [i \in 0..(bufSize - 1) |-> 0],
                  head |-> 0, tail |-> 0, drop_cnt |-> 0]

SrFlags == {"ORE", "FE", "NE", "PE", "RXNE", "TXE"}
ErrFlags == {"ORE", "FE", "NE", "PE"}

\* bytes stored between tail and head, oldest first
RECURSIVE RingSeq(_, _, _)
RingSeq(rb, from, to) ==
    IF from = to THEN <<>>
    ELSE <<rb.buf[from]>> \o RingSeq(rb, (from + 1) % bufSize, to)

Contents(rb) == RingSeq(rb, rb.tail, rb.head)

IsPrefix(s, t) == Len(s) <= Len(t) /\ SubSeq(t, 1, Len(s)) = s

Snapshot == [rx |-> rx, tx |-> tx, err |-> err, cr1 |-> cr1, out |-> out]

\* the i-th byte (0-based) of the data block of the write in progress
DataByte(i) == (op.base + i + 1) % U8

(***************************************************************************)
(* usart2_init (the configuration of project_config.c)                     *)
(***************************************************************************)
\* mutant: CR1 |= TE | RE | RXNEIE | UE, the bits already set are kept
usart2_init_KeepCr1 ==
    /\ pc = "reset"
    /\ rx' = ring_buffer_t
    /\ tx' = ring_buffer_t
    /\ err' = [ore |-> 0, fe |-> 0, ne |-> 0, pe |-> 0]
    /\ cr1' = cr1 \cup {"TE", "RE", "RXNEIE", "UE"}
    /\ pc' = "idle"
    /\ UNCHANGED <<bufSize, op, cnt, f_head, f_tail, f_cr1, out, ret, txPushed,
                   txWire, rxPushed, rxPopped, txOffered, rxArrived, rxRecv,
                   rxErrBytes, calls, isrs, errIsrs, pre, isrInCall>>

usart2_init ==
    /\ pc = "reset"
    /\ rx' = ring_buffer_t
    /\ tx' = ring_buffer_t
    /\ err' = [ore |-> 0, fe |-> 0, ne |-> 0, pe |-> 0]
    /\ cr1' = {"TE", "RE", "RXNEIE", "UE"}
    /\ pc' = "idle"
    /\ UNCHANGED <<bufSize, op, cnt, f_head, f_tail, f_cr1, out, ret, txPushed,
                   txWire, rxPushed, rxPopped, txOffered, rxArrived, rxRecv,
                   rxErrBytes, calls, isrs, errIsrs, pre, isrInCall>>

(***************************************************************************)
(* usart2_write                                                            *)
(***************************************************************************)
fgFrame == <<bufSize, err, txWire, rxPushed, rxArrived, rxRecv, rxErrBytes,
             isrs, errIsrs>>

usart2_write_call(len) ==
    /\ pc = "idle"
    /\ calls' = calls + 1
    /\ op' = [name |-> "write", len |-> len, base |-> txOffered]
    /\ txOffered' = txOffered + len
    /\ pre' = Snapshot
    /\ isrInCall' = FALSE
    /\ cnt' = 0
    /\ IF len = 0
       THEN pc' = "done" /\ ret' = 0
       ELSE pc' = "w_head" /\ ret' = ret
    /\ UNCHANGED <<fgFrame, rx, tx, cr1, f_head, f_tail, f_cr1, out, txPushed,
                   rxPopped>>

\* uint16_t head = rb->head;
w_head ==
    /\ pc = "w_head"
    /\ f_head' = tx.head
    /\ pc' = "w_tail"
    /\ UNCHANGED <<fgFrame, rx, tx, cr1, op, cnt, f_tail, f_cr1, out, ret,
                   txPushed, rxPopped, txOffered, calls, pre, isrInCall>>

\* uint16_t tail = rb->tail;
w_tail ==
    /\ pc = "w_tail"
    /\ f_tail' = tx.tail
    /\ pc' = "w_chk"
    /\ UNCHANGED <<fgFrame, rx, tx, cr1, op, cnt, f_head, f_cr1, out, ret,
                   txPushed, rxPopped, txOffered, calls, pre, isrInCall>>

WriteNextHead(head) == BitAnd(head + 1, BUFFER_MASK)

\* mutant: the full test is missing, so the writer overruns the reader
WriteIsFull_Never(head, tail) == FALSE

WriteIsFull(head, tail) == WriteNextHead(head) = tail

\* mutant: one drop is counted per truncated call
WriteDropAdd_One(drop, len, write_cnt) == (drop + 1) % U16

\* rb->drop_cnt += (uint16_t)(len - write_cnt);
WriteDropAdd(drop, len, write_cnt) == (drop + ((len - write_cnt) % U16)) % U16

\* if (next_head == tail) { drop_cnt += (uint16_t)(len - write_cnt); break; }
\* rb->buffer_array[head] = data[write_cnt];
w_chk ==
    /\ pc = "w_chk"
    /\ IF WriteIsFull(f_head, f_tail)
       THEN /\ tx' = [tx EXCEPT !.drop_cnt = WriteDropAdd(@, op.len, cnt)]
            /\ pc' = "w_epi"
            /\ txPushed' = txPushed
       ELSE /\ tx' = [tx EXCEPT !.buf[f_head] = DataByte(cnt)]
            /\ pc' = "w_adv"
            /\ txPushed' = Append(txPushed, DataByte(cnt))
    /\ UNCHANGED <<fgFrame, rx, cr1, op, cnt, f_head, f_tail, f_cr1, out, ret,
                   rxPopped, txOffered, calls, pre, isrInCall>>

\* rb->head = next_head; write_cnt++
w_adv ==
    /\ pc = "w_adv"
    /\ tx' = [tx EXCEPT !.head = WriteNextHead(f_head)]
    /\ cnt' = cnt + 1
    /\ pc' = IF cnt + 1 < op.len THEN "w_head" ELSE "w_epi"
    /\ UNCHANGED <<fgFrame, rx, cr1, op, f_head, f_tail, f_cr1, out, ret,
                   txPushed, rxPopped, txOffered, calls, pre, isrInCall>>

\* if (write_cnt) { load of USART2->CR1 ... } else return 0
w_epi ==
    /\ pc = "w_epi"
    /\ IF cnt # 0
       THEN f_cr1' = cr1 /\ pc' = "w_cr1" /\ ret' = ret
       ELSE f_cr1' = f_cr1 /\ pc' = "done" /\ ret' = cnt
    /\ UNCHANGED <<fgFrame, rx, tx, cr1, op, cnt, f_head, f_tail, out,
                   txPushed, rxPopped, txOffered, calls, pre, isrInCall>>

\* mutant: usart2_write does not arm the transmit-empty interrupt
w_cr1_NoArm ==
    /\ pc = "w_cr1"
    /\ cr1' = f_cr1
    /\ ret' = cnt
    /\ pc' = "done"
    /\ UNCHANGED <<fgFrame, rx, tx, op, cnt, f_head, f_tail, f_cr1, out,
                   txPushed, rxPopped, txOffered, calls, pre, isrInCall>>

\* ... store of USART2->CR1 | USART_CR1_TXEIE; return write_cnt
w_cr1 ==
    /\ pc = "w_cr1"
    /\ cr1' = f_cr1 \cup {"TXEIE"}
    /\ ret' = cnt
    /\ pc' = "done"
    /\ UNCHANGED <<fgFrame, rx, tx, op, cnt, f_head, f_tail, f_cr1, out,
                   txPushed, rxPopped, txOffered, calls, pre, isrInCall>>

(***************************************************************************)
(* usart2_read                                                             *)
(***************************************************************************)
usart2_read_call(max_len) ==
    /\ pc = "idle"
    /\ calls' = calls + 1
    /\ op' = [name |-> "read", len |-> max_len, base |-> 0]
    /\ pre' = [Snapshot EXCEPT !.out = <<>>]
    /\ isrInCall' = FALSE
    /\ cnt' = 0
    /\ out' = <<>>
    /\ IF max_len = 0
       THEN pc' = "done" /\ ret' = 0
       ELSE pc' = "r_head" /\ ret' = ret
    /\ UNCHANGED <<fgFrame, rx, tx, cr1, f_head, f_tail, f_cr1, txPushed,
                   rxPopped, txOffered>>

\* uint16_t head = rb->head;
r_head ==
    /\ pc = "r_head"
    /\ f_head' = rx.head
    /\ pc' = "r_tail"
    /\ UNCHANGED <<fgFrame, rx, tx, cr1, op, cnt, f_tail, f_cr1, out, ret,
                   txPushed, rxPopped, txOffered, calls, pre, isrInCall>>

\* uint16_t tail = rb->tail;
r_tail ==
    /\ pc = "r_tail"
    /\ f_tail' = rx.tail
    /\ pc' = "r_chk"
    /\ UNCHANGED <<fgFrame, rx, tx, cr1, op, cnt, f_head, f_cr1, out, ret,
                   txPushed, rxPopped, txOffered, calls, pre, isrInCall>>

ReadIsEmpty(head, tail) == tail = head

\* if (tail == head) break;  output[read_cnt] = rb->buffer_array[tail];
r_chk ==
    /\ pc = "r_chk"
    /\ IF ReadIsEmpty(f_head, f_tail)
       THEN /\ pc' = "done"
            /\ ret' = cnt
            /\ UNCHANGED <<out, rxPopped>>
       ELSE /\ out' = Append(out, rx.buf[f_tail])
            /\ rxPopped' = Append(rxPopped, rx.buf[f_tail])
            /\ pc' = "r_adv"
            /\ ret' = ret
    /\ UNCHANGED <<fgFrame, rx, tx, cr1, op, cnt, f_head, f_tail, f_cr1,
                   txPushed, txOffered, calls, pre, isrInCall>>

\* mutant: the reader does not advance
ReadNextTail_Stuck(tail) == tail

ReadNextTail(tail) == BitAnd(tail + 1, BUFFER_MASK)

\* rb->tail = (tail + 1u) & BUFFER_MASK; read_cnt++
r_adv ==
    /\ pc = "r_adv"
    /\ rx' = [rx EXCEPT !.tail = ReadNextTail(f_tail)]
    /\ cnt' = cnt + 1
    /\ IF cnt + 1 < op.len
       THEN pc' = "r_head" /\ ret' = ret
       ELSE pc' = "done" /\ ret' = cnt + 1
    /\ UNCHANGED <<fgFrame, tx, cr1, op, f_head, f_tail, f_cr1, out,
                   txPushed, rxPopped, txOffered, calls, pre, isrInCall>>

\* the call returns to the main loop; its locals are dead from here on
NoOp == [name |-> "none", len |-> 0, base |-> 0]

NoPre == [rx |-> 0, tx |-> 0, err |-> 0, cr1 |-> {}, out |-> <<>>]

fg_return ==
    /\ pc = "done"
    /\ pc' = "idle"
    /\ op' = NoOp /\ cnt' = 0 /\ f_head' = 0 /\ f_tail' = 0 /\ f_cr1' = {}
    /\ out' = <<>> /\ ret' = 0 /\ pre' = NoPre /\ isrInCall' = FALSE
    /\ UNCHANGED <<fgFrame, rx, tx, cr1, txPushed, rxPopped, txOffered,
                   calls>>

(***************************************************************************)
(* usart2_irq_handler: runs to completion; sr is the value read from       *)
(* USART2->SR, the byte in USART2->DR is the next one on the line.         *)
(***************************************************************************)
\* usart_h->err_xx_cnt++ (uint32_t: no wrap within MaxIsr invocations)
IsrCount(c, hit) == IF hit THEN c + 1 ELSE c

\* mutant: the index is not masked
IsrRxNextHead_NoMask(head) == head + 1

IsrRxNextHead(head) == BitAnd(head + 1, BUFFER_MASK)

\* mutant: on a full RX buffer the handler discards the oldest byte
IsrRx_Overwrite(sr, dr) ==
    LET nerr == Cardinality(sr \cap ErrFlags)
        error_flag == nerr > 0
        next_head == IsrRxNextHead(rx.head)
    IN  /\ err' = [ore |-> IsrCount(err.ore, "ORE" \in sr),
                   fe  |-> IsrCount(err.fe, "FE" \in sr),
                   ne  |-> IsrCount(err.ne, "NE" \in sr),
                   pe  |-> IsrCount(err.pe, "PE" \in sr)]
        /\ IF error_flag
           THEN /\ rx' = [rx EXCEPT !.drop_cnt = (@ + nerr) % U16]
                /\ rxErrBytes' = rxErrBytes + 1
                /\ rxArrived' = rxArrived + 1
                /\ UNCHANGED <<rxPushed, rxRecv>>
           ELSE IF "RXNE" \in sr
           THEN /\ rxArrived' = rxArrived + 1
                /\ rxRecv' = rxRecv + 1
                /\ rxErrBytes' = rxErrBytes
                /\ rx' = [rx EXCEPT !.buf[rx.head] = dr,
                                    !.head = next_head,
                                    !.tail = IF next_head = rx.tail
                                             THEN IsrRxNextHead(rx.tail)
                                             ELSE rx.tail]
                /\ rxPushed' = Append(rxPushed, dr)
           ELSE UNCHANGED <<rx, rxPushed, rxRecv, rxArrived, rxErrBytes>>

\* the receive half: error counters, drop counter, RX buffer
IsrRx(sr, dr) ==
    LET nerr == Cardinality(sr \cap ErrFlags)
        error_flag == nerr > 0
        next_head == IsrRxNextHead(rx.head)
    IN  /\ err' = [ore |-> IsrCount(err.ore, "ORE" \in sr),
                   fe  |-> IsrCount(err.fe, "FE" \in sr),
                   ne  |-> IsrCount(err.ne, "NE" \in sr),
                   pe  |-> IsrCount(err.pe, "PE" \in sr)]
        /\ IF error_flag
           THEN /\ rx' = [rx EXCEPT !.drop_cnt = (@ + nerr) % U16]
                /\ rxErrBytes' = rxErrBytes + 1
                /\ rxArrived' = rxArrived + 1
                /\ UNCHANGED <<rxPushed, rxRecv>>
           ELSE IF "RXNE" \in sr
           THEN /\ rxArrived' = rxArrived + 1
                /\ rxRecv' = rxRecv + 1
                /\ rxErrBytes' = rxErrBytes
                /\ IF next_head = rx.tail
                   THEN /\ rx' = [rx EXCEPT !.drop_cnt = (@ + 1) % U16]
                        /\ rxPushed' = rxPushed
                   ELSE /\ rx' = [rx EXCEPT !.buf[rx.head] = dr,
                                            !.head = next_head]
                        /\ rxPushed' = Append(rxPushed, dr)
           ELSE UNCHANGED <<rx, rxPushed, rxRecv, rxArrived, rxErrBytes>>

IsrTxNextTail(tail) == BitAnd(tail + 1, BUFFER_MASK)

\* the transmit half: one byte to DR, or TXEIE off
IsrTx(sr, cr1v) ==
    IF "TXE" \in sr /\ "TXEIE" \in cr1v
    THEN IF tx.tail # tx.head
         THEN /\ tx' = [tx EXCEPT !.tail = IsrTxNextTail(tx.tail)]
              /\ txWire' = Append(txWire, tx.buf[tx.tail])
              /\ cr1' = cr1
         ELSE /\ cr1' = cr1 \ {"TXEIE"}
              /\ UNCHANGED <<tx, txWire>>
    ELSE UNCHANGED <<tx, txWire, cr1>>

\* mutant: the handler returns after discarding an erroneous byte
usart2_irq_handler_ErrReturn(sr) ==
    /\ pc # "reset"
    /\ isrs' = isrs + 1
    /\ errIsrs' = IF sr \cap ErrFlags # {} THEN errIsrs + 1 ELSE errIsrs
    /\ isrInCall' = (pc \notin {"idle"})
    /\ IsrRx(sr, (rxArrived + 1) % U8)
    /\ IF sr \cap ErrFlags # {}
       THEN UNCHANGED <<tx, txWire, cr1>>
       ELSE IsrTx(sr, cr1)
    /\ UNCHANGED <<bufSize, pc, op, cnt, f_head, f_tail, f_cr1, out, ret,
                   txPushed, rxPopped, txOffered, calls, pre>>

usart2_irq_handler(sr) ==
    /\ pc # "reset"
    /\ isrs' = isrs + 1
    /\ errIsrs' = IF sr \cap ErrFlags # {} THEN errIsrs + 1 ELSE errIsrs
    /\ isrInCall' = (pc \notin {"idle"})
    /\ IsrRx(sr, (rxArrived + 1) % U8)
    /\ IsrTx(sr, cr1)
    /\ UNCHANGED <<bufSize, pc, op, cnt, f_head, f_tail, f_cr1, out, ret,
                   txPushed, rxPopped, txOffered, calls, pre>>

(***************************************************************************)
(* ADC driver: adc_init, adc_start, adc_read, adc_irq_handler and the      *)
(* converter that completes conversions.                                   *)
(***************************************************************************)
ADC_MODE_CONTINUOUS == 0
ADC_MODE_SINGLE == 1

\* the caller's output variable before anything was read into it
NoValue == U16 - 1

\* ADC1_IN0_H as project_config.c defines it, ADC1 after reset
AdcReset(mode) ==
    /\ adc_mode = mode
    /\ adc_data_ready = FALSE
    /\ last_reading = 0
    /\ adc_eoc = FALSE /\ adc_dr = 0 /\ adc_cont = FALSE /\ adc_busy = FALSE
    /\ adc_convs = 0 /\ adc_seen = 0 /\ adc_mark = 0 /\ adc_ok = 0
    /\ adc_over = {}
    /\ adc_ev = "reset"

AdcSnapshot == [ready |-> adc_data_ready, last |-> last_reading, out |-> out,
                ev |-> adc_ev, seen |-> adc_seen]

adcFgFrame == <<uartOnly, adc_mode, adc_convs, adc_seen, adc_mark, adc_over,
               isrs>>

\* CR2 |= (adc_cfg->mode << ADC_CR2_CONT_Pos)
InitCont(mode) == mode = 1

adc_init ==
    /\ pc = "reset"
    /\ adc_cont' = InitCont(adc_mode)
    /\ adc_eoc' = FALSE
    /\ last_reading' = 0
    /\ adc_data_ready' = FALSE
    /\ adc_ev' = "init"
    /\ pc' = "idle"
    /\ UNCHANGED <<adcFgFrame, adc_dr, adc_busy, adc_ok, op, ret, out, pre,
                   isrInCall, calls>>

\* adc_h->adc_data_ready = false;
adc_start_call ==
    /\ pc = "idle"
    /\ calls' = calls + 1
    /\ op' = [name |-> "adc_start", h |-> "ADC1_IN0_H", outp |-> "none"]
    /\ pre' = AdcSnapshot
    /\ isrInCall' = FALSE
    /\ adc_data_ready' = FALSE
    /\ adc_mark' = adc_convs
    /\ adc_ev' = "start"
    /\ pc' = "s_sw"
    /\ UNCHANGED <<uartOnly, adc_mode, adc_convs, adc_seen, adc_over, isrs,
                   last_reading, adc_eoc, adc_dr, adc_cont, adc_busy, adc_ok,
                   ret, out>>

\* adc_h->inst->CR2 |= ADC_CR2_SWSTART;
s_sw ==
    /\ pc = "s_sw"
    /\ adc_busy' = TRUE
    /\ pc' = "done"
    /\ ret' = 0
    /\ UNCHANGED <<adcFgFrame, adc_data_ready, last_reading, adc_eoc, adc_dr,
                   adc_cont, adc_ok, adc_ev, op, out, pre, isrInCall, calls>>

\* the pointer checks of adc_read
AdcReadArgsOk(h, outp) == h # "NULL" /\ outp # "NULL"

adc_read_call(h, outp) ==
    /\ pc = "idle"
    /\ calls' = calls + 1
    /\ op' = [name |-> "adc_read", h |-> h, outp |-> outp]
    /\ out' = NoValue
    /\ pre' = [AdcSnapshot EXCEPT !.out = NoValue]
    /\ isrInCall' = FALSE
    /\ IF AdcReadArgsOk(h, outp)
       THEN pc' = "a_rdy" /\ ret' = ret
       ELSE pc' = "done" /\ ret' = FALSE
    /\ UNCHANGED <<adcFgFrame, adc_data_ready, last_reading, adc_eoc, adc_dr,
                   adc_cont, adc_busy, adc_ok, adc_ev>>

\* if (adc_h->adc_data_ready)
a_rdy ==
    /\ pc = "a_rdy"
    /\ IF adc_data_ready
       THEN pc' = "a_copy" /\ ret' = ret
       ELSE pc' = "done" /\ ret' = FALSE
    /\ UNCHANGED <<adcFgFrame, adc_data_ready, last_reading, adc_eoc, adc_dr,
                   adc_cont, adc_busy, adc_ok, adc_ev, op, out, pre,
                   isrInCall, calls>>

\* *output = adc_h->last_reading;
a_copy ==
    /\ pc = "a_copy"
    /\ out' = last_reading
    /\ pc' = "a_clear"
    /\ UNCHANGED <<adcFgFrame, adc_data_ready, last_reading, adc_eoc, adc_dr,
                   adc_cont, adc_busy, adc_ok, adc_ev, op, ret, pre,
                   isrInCall, calls>>

\* mutant: adc_read leaves the flag set
ReadClears_Keep == TRUE

\* the value adc_read stores into the ready flag
ReadClears == FALSE

\* adc_h->adc_data_ready = false; return true;
a_clear ==
    /\ pc = "a_clear"
    /\ adc_data_ready' = ReadClears
    /\ ret' = TRUE
    /\ adc_ok' = adc_ok + 1
    /\ adc_ev' = "read_ok"
    /\ pc' = "done"
    /\ UNCHANGED <<adcFgFrame, last_reading, adc_eoc, adc_dr, adc_cont,
                   adc_busy, op, out, pre, isrInCall, calls>>

adc_return ==
    /\ pc = "done"
    /\ pc' = "idle"
    /\ op' = NoOp /\ ret' = 0 /\ out' = <<>> /\ pre' = NoPre
    /\ isrInCall' = FALSE
    /\ UNCHANGED <<adcFgFrame, adc_data_ready, last_reading, adc_eoc, adc_dr,
                   adc_cont, adc_busy, adc_ok, adc_ev, calls>>

\* the converter finishes a conversion: DR holds the sample, EOC is set
adc_hw_complete ==
    /\ adc_busy
    /\ adc_convs < MaxConv
    /\ adc_convs' = adc_convs + 1
    /\ adc_dr' = adc_convs + 1
    /\ adc_eoc' = TRUE
    /\ adc_busy' = adc_cont
    /\ UNCHANGED <<uartOnly, adc_mode, adc_data_ready, last_reading, adc_cont,
                   adc_seen, adc_mark, adc_over, adc_ok, adc_ev, pc, op, ret,
                   out, pre, isrInCall, calls, isrs>>

\* mutant: the handler stores the sample without raising the flag
IrqSetsReady_Not == FALSE

\* the flag value the handler stores on a completion
IrqSetsReady == TRUE

\* mutant: the handler keeps the stored sample while the flag is set
adc_irq_handler_KeepFirst ==
    /\ pc # "reset"
    /\ isrs < MaxIsr
    /\ isrs' = isrs + 1
    /\ isrInCall' = (pc # "idle")
    /\ IF adc_eoc
       THEN /\ last_reading' = IF adc_data_ready THEN last_reading
                                                ELSE adc_dr % U16
            /\ adc_data_ready' = IrqSetsReady
            /\ adc_eoc' = FALSE
            /\ adc_seen' = adc_seen + 1
            /\ adc_over' = IF adc_data_ready /\ pc # "a_clear"
                           THEN adc_over \cup {last_reading}
                           ELSE adc_over
            /\ adc_ev' = "eoc"
       ELSE UNCHANGED <<last_reading, adc_data_ready, adc_eoc, adc_seen,
                        adc_over, adc_ev>>
    /\ UNCHANGED <<uartOnly, adc_mode, adc_dr, adc_cont, adc_busy, adc_convs,
                   adc_mark, adc_ok, pc, op, ret, out, pre, calls>>

\* adc_irq_handler: runs to completion; reading DR clears EOC
adc_irq_handler ==
    /\ pc # "reset"
    /\ isrs < MaxIsr
    /\ isrs' = isrs + 1
    /\ isrInCall' = (pc # "idle")
    /\ IF adc_eoc
       THEN /\ last_reading' = adc_dr % U16
            /\ adc_data_ready' = IrqSetsReady
            /\ adc_eoc' = FALSE
            /\ adc_seen' = adc_seen + 1
            /\ adc_over' = IF adc_data_ready /\ pc # "a_clear"
                           THEN adc_over \cup {last_reading}
                           ELSE adc_over
            /\ adc_ev' = "eoc"
       ELSE UNCHANGED <<last_reading, adc_data_ready, adc_eoc, adc_seen,
                        adc_over, adc_ev>>
    /\ UNCHANGED <<uartOnly, adc_mode, adc_dr, adc_cont, adc_busy, adc_convs,
                   adc_mark, adc_ok, pc, op, ret, out, pre, calls>>

(***************************************************************************)
(* EXTI driver: exti_register in the foreground, exti_dispatch from the    *)
(* EXTI interrupt handlers, and the hardware latching edges in EXTI->PR.   *)
(* exti_register makes two stores; a dispatch may run between them and     *)
(* the hardware may latch an edge between any two steps of a dispatch.     *)
(***************************************************************************)
EXTI_LINES == 0 .. 15

NoTables == [cb |-> <<>>, arg |-> <<>>]
NoReg == [line |-> 0, cb |-> "NULL", arg |-> "NULL"]
NoDispatch == [first |-> 0, last |-> 0]
NoDispatchPre == [pr |-> {}, cb |-> <<>>, arg |-> <<>>]

ExtiTablesReset ==
    /\ callbk_array = [l \in EXTI_LINES |-> "NULL"]
    /\ callbk_arg_array = [l \in EXTI_LINES |-> "NULL"]
    /\ exti_pr = {}
    /\ r_pc = "idle" /\ r_op = NoReg /\ r_ret = FALSE /\ r_pre = NoTables
    /\ d_pc = "idle" /\ d_op = NoDispatch /\ d_line = 0 /\ d_pending = {}
    /\ d_invoked = <<>> /\ d_pre = NoDispatchPre /\ d_latched = {}
    /\ d_carried = {}
    /\ d_visits = 0 /\ d_oob = {}
    /\ e_regs = 0 /\ e_edges = 0 /\ e_disps = 0

\* the build of the project: LSL by a register (0 for a count of 32 and
\* more), zero-initialised data behind the tables
ProjectEnv == [shl32 |-> FALSE, beyond |-> "NULL"]

ExtiEnvs == [shl32 : BOOLEAN, beyond : {"NULL", "wild"}]

ExtiReset == ExtiTablesReset /\ exti_env = ProjectEnv

\* the ranges the interrupt handlers pass to exti_dispatch
IrqRanges == {<<0, 0>>, <<1, 1>>, <<2, 2>>, <<3, 3>>, <<4, 4>>, <<5, 9>>,
              <<10, 15>>}

\* mutant: the guard admits line 16
RegisterLineInvalid_Off == [line \in 0 .. U8 - 1 |-> line > 16]

\* the line numbers exti_register rejects
RegisterLineInvalid == [line \in 0 .. U8 - 1 |-> line > 15]

\* a store to entry [line] of a 16-entry table
TableStore(table, line, v) == [l \in EXTI_LINES |-> IF l = line THEN v ELSE table[l]]

\* exti_register: the guard and the store of the callback
exti_register_call(line, callbk, callbk_arg) ==
    /\ r_pc = "idle" /\ d_pc = "idle"
    /\ r_op' = [line |-> line, cb |-> callbk, arg |-> callbk_arg]
    /\ r_pre' = [cb |-> callbk_array, arg |-> callbk_arg_array]
    /\ e_regs' = e_regs + 1
    /\ IF RegisterLineInvalid[line]
       THEN r_pc' = "done" /\ r_ret' = FALSE /\ callbk_array' = callbk_array
       ELSE /\ r_pc' = "r_arg" /\ r_ret' = r_ret
            /\ callbk_array' = TableStore(callbk_array, line, callbk)
    /\ UNCHANGED <<callbk_arg_array, exti_pr, d_pc, d_op, d_line,
                   d_pending, d_invoked, d_pre, d_latched, d_carried, d_visits,
                   d_oob, e_edges,
                   e_disps,
                   exti_env>>

\* exti_register: the store of the argument, and the return
r_arg ==
    /\ r_pc = "r_arg" /\ d_pc = "idle"
    /\ callbk_arg_array' = TableStore(callbk_arg_array, r_op.line, r_op.arg)
    /\ r_pc' = "done" /\ r_ret' = TRUE
    /\ UNCHANGED <<callbk_array, exti_pr, r_op, r_pre, d_pc, d_op,
                   d_line, d_pending, d_invoked, d_pre, d_latched, d_carried,
                   d_visits, d_oob,
                   e_regs, e_edges, e_disps,
                   exti_env>>

\* the caller takes the result
r_return ==
    /\ r_pc = "done" /\ d_pc = "idle"
    /\ r_pc' = "idle" /\ r_op' = NoReg /\ r_ret' = FALSE /\ r_pre' = NoTables
    /\ UNCHANGED <<callbk_array, callbk_arg_array, exti_pr, d_pc, d_op, d_line,
                   d_pending, d_invoked, d_pre, d_latched, d_carried, d_visits,
                   d_oob, e_regs,
                   e_edges, e_disps,
                   exti_env>>

\* exti_dispatch entry: pending = EXTI->PR; line = first
exti_dispatch_call(first, last) ==
    /\ d_pc = "idle"
    /\ d_op' = [first |-> first, last |-> last]
    /\ d_pending' = exti_pr
    /\ d_line' = first
    /\ d_invoked' = <<>> /\ d_latched' = {}
    /\ d_pre' = [pr |-> exti_pr, cb |-> callbk_array, arg |-> callbk_arg_array]
    /\ d_pc' = "d_loop"
    /\ e_disps' = e_disps + 1
    /\ UNCHANGED <<callbk_array, callbk_arg_array, exti_pr, r_pc, r_op, r_ret,
                   r_pre, d_carried, e_regs, e_edges,
                   exti_env>>
    /\ d_visits' = 0 /\ d_oob' = {}

\* mutant: the write to EXTI->PR clears every pending bit
PrWriteOne_All(pr, line) == {}

\* EXTI->PR = (1u << line): writing 1 clears that bit, the others are kept
PrWriteOne(pr, line) == pr \ {line}

\* pending & (1u << line): the shift is undefined for line >= 32; the
\* core's LSL by a register yields 0 there, a shift that takes its count
\* modulo 32 tests bit line % 32 (exti_env.shl32 says which the build does)
BitTest(pending, line) ==
    IF line < 32 THEN line \in pending
    ELSE exti_env.shl32 /\ (line % 32) \in pending

\* callbk_array[line], callbk_arg_array[line]: entries 0..15 exist, an index
\* above 15 reads what lies behind the table (exti_env.beyond)
TableRead(table, line) ==
    IF line \in EXTI_LINES THEN table[line] ELSE exti_env.beyond

\* one iteration of the loop of exti_dispatch, or its exit
d_loop ==
    /\ d_pc = "d_loop"
    /\ IF d_line <= d_op.last
       THEN /\ IF BitTest(d_pending, d_line)
               THEN /\ exti_pr' = PrWriteOne(exti_pr, d_line % 32)
                    /\ d_oob' = IF d_line \in EXTI_LINES THEN d_oob
                                ELSE d_oob \cup {d_line}
                    /\ d_invoked' =
                         IF TableRead(callbk_array, d_line) # "NULL"
                         THEN Append(d_invoked,
                                     <<d_line, TableRead(callbk_array, d_line),
                                       TableRead(callbk_arg_array, d_line)>>)
                         ELSE d_invoked
               ELSE UNCHANGED <<exti_pr, d_invoked, d_oob>>
            /\ d_line' = (d_line + 1) % U8
            /\ d_visits' = d_visits + 1
            /\ d_pc' = d_pc
       ELSE d_pc' = "done"
            /\ UNCHANGED <<exti_pr, d_invoked, d_line, d_visits, d_oob>>
    /\ UNCHANGED <<callbk_array, callbk_arg_array, r_pc, r_op, r_ret, r_pre,
                   d_op, d_pending, d_pre, d_latched, d_carried, e_regs,
                   e_edges, e_disps,
                   exti_env>>

\* the handler returns
d_return ==
    /\ d_pc = "done"
    /\ d_pc' = "idle" /\ d_op' = NoDispatch /\ d_line' = 0 /\ d_pending' = {}
    /\ d_invoked' = <<>> /\ d_pre' = NoDispatchPre /\ d_latched' = {}
    /\ d_carried' = d_latched \cap exti_pr
    /\ d_visits' = 0 /\ d_oob' = {}
    /\ UNCHANGED <<callbk_array, callbk_arg_array, exti_pr, r_pc, r_op, r_ret,
                   r_pre, e_regs, e_edges, e_disps,
                   exti_env>>

\* hardware: an edge on a line sets its pending bit (an edge on a line that
\* is already pending changes nothing)
EdgeLatch(line) ==
    /\ line \notin exti_pr
    /\ exti_pr' = exti_pr \cup {line}
    /\ d_latched' = IF d_pc = "idle" THEN d_latched ELSE d_latched \cup {line}
    /\ e_edges' = e_edges + 1
    /\ UNCHANGED <<callbk_array, callbk_arg_array, r_pc, r_op, r_ret, r_pre,
                   d_pc, d_op, d_line, d_pending, d_invoked, d_pre,
                   d_carried, d_visits, d_oob, e_regs, e_disps,
                   exti_env>>

(***************************************************************************)
(* TIM1 PWM driver: pwm_tim1_init, pwm_tim1_set_duty, pwm_tim1_start,      *)
(* pwm_tim1_stop and the board's pwm_set_duty_permyriad.                   *)
(* A uint32_t that may exceed 2^31 - 1 (pwm_hz and 2u * pwm_hz) is a pair  *)
(* <<hi, lo>> of 16-bit halves; tim_clk_hz is taken below 2^31.  A         *)
(* configuration is a record; its field ptr tells whether the pointer      *)
(* passed to the driver is NULL.                                           *)
(***************************************************************************)
PWM_CHANNELS == 1 .. 3

PwmReset ==
    /\ pwm_arr = 0
    /\ tim1_psc = 0 /\ tim1_arr = U16 - 1
    /\ tim1_ccr = [ch \in PWM_CHANNELS |-> 0]
    /\ tim1_cms = 0 /\ tim1_moe = FALSE /\ tim1_cen = FALSE
    /\ tim1_ccer = {}
    /\ gpio_done = {}
    /\ p_pc = "idle" /\ p_op = [name |-> "none"] /\ p_half = 0 /\ p_psc = 0
    /\ p_ret = FALSE /\ p_pre = <<>> /\ p_calls = 0

\* the value of a pair that is below 2^31
Val32(x) == x[1] * U16 + x[2]

\* 2u * x in 32-bit unsigned arithmetic
Mul2Mod32(x) == <<(2 * x[1] + (2 * x[2]) \div U16) % U16, (2 * x[2]) % U16>>

\* n / d in 32-bit unsigned arithmetic, for n < 2^31 and d # 0
Div32(n, d) == IF d[1] >= U16 \div 2 THEN 0 ELSE n \div Val32(d)

\* gpio_init_pin on the configured pins, in channel order, up to the first
\* failure: the channels configured, and whether all succeeded
RECURSIVE GpioInitPins(_, _)
GpioInitPins(pins, ch) ==
    IF ch > 3 THEN [ok |-> TRUE, done |-> {}]
    ELSE IF pins[ch] = "NULL" THEN GpioInitPins(pins, ch + 1)
    ELSE IF pins[ch] = "bad" THEN [ok |-> FALSE, done |-> {}]
    ELSE LET rest == GpioInitPins(pins, ch + 1)
         IN  [ok |-> rest.ok, done |-> {ch} \cup rest.done]

\* pwm_config_channels: CCxE is cleared for the three channels and set
\* again for the channels whose pin is not NULL
ConfigChannels(pins) == {ch \in PWM_CHANNELS : pins[ch] # "NULL"}

pwmRegs == <<pwm_arr, tim1_psc, tim1_arr, tim1_ccr, tim1_cms, tim1_moe,
             tim1_cen, tim1_ccer>>

\* pwm_tim1_init: the checks of its arguments
pwm_tim1_init_call(pwm_cfg, pwm_h) ==
    /\ p_pc = "idle"
    /\ p_op' = [name |-> "pwm_tim1_init", cfg |-> pwm_cfg, h |-> pwm_h,
                regs |-> pwmRegs]
    /\ p_pre' = tim1_ccr
    /\ p_calls' = p_calls + 1
    /\ IF pwm_cfg.ptr = "NULL" \/ pwm_h = "NULL"
       THEN p_pc' = "done" /\ p_ret' = FALSE /\ gpio_done' = gpio_done
       ELSE IF \A ch \in PWM_CHANNELS : pwm_cfg.pins[ch] = "NULL"
       THEN p_pc' = "done" /\ p_ret' = FALSE /\ gpio_done' = gpio_done
       ELSE LET g == GpioInitPins(pwm_cfg.pins, 1) IN
            /\ gpio_done' = gpio_done \cup g.done
            /\ IF ~g.ok
                  \/ pwm_cfg.tim_clk_hz = 0 \/ pwm_cfg.pwm_hz = <<0, 0>>
                  \/ pwm_cfg.align < 1 \/ pwm_cfg.align > 3
               THEN p_pc' = "done" /\ p_ret' = FALSE
               ELSE p_pc' = "p_div" /\ p_ret' = p_ret
    /\ UNCHANGED <<pwmRegs, p_half, p_psc>>

\* half_ticks = tim_clk_hz / (2u * pwm_hz); a zero divisor is undefined
\* behaviour: the division traps, or yields 0
p_div ==
    /\ p_pc = "p_div"
    /\ LET d == Mul2Mod32(p_op.cfg.pwm_hz) IN
       \/ /\ d = <<0, 0>>
          /\ p_pc' = "fault"
          /\ UNCHANGED <<p_half, p_psc, p_ret>>
       \/ /\ LET half_ticks == IF d = <<0, 0>> THEN 0
                               ELSE Div32(p_op.cfg.tim_clk_hz, d)
             IN  /\ p_half' = half_ticks
                 /\ IF half_ticks < 2
                    THEN p_pc' = "done" /\ p_ret' = FALSE
                    ELSE p_pc' = "p_loop" /\ p_ret' = p_ret
          /\ p_psc' = 0
    /\ UNCHANGED <<pwmRegs, gpio_done, p_op, p_pre, p_calls>>

\* one test of the prescaler loop; on its exit the counter is disabled and
\* the time base and the channels are programmed
p_loop ==
    /\ p_pc = "p_loop"
    /\ IF p_half \div (p_psc + 1) > U16 - 1
       THEN /\ IF p_psc = U16 - 1
               THEN p_pc' = "done" /\ p_ret' = FALSE /\ p_psc' = p_psc
               ELSE p_pc' = p_pc /\ p_ret' = p_ret /\ p_psc' = p_psc + 1
            /\ UNCHANGED pwmRegs
       ELSE LET arr == p_half \div (p_psc + 1) - 1 IN
            /\ p_psc' = p_psc
            /\ IF arr > U16 - 1
               THEN p_pc' = "done" /\ p_ret' = FALSE /\ UNCHANGED pwmRegs
               ELSE /\ pwm_arr' = arr % U16
                    /\ tim1_cen' = FALSE
                    /\ tim1_cms' = p_op.cfg.align % 4
                    /\ tim1_psc' = p_psc
                    /\ tim1_arr' = arr % U16
                    /\ tim1_ccer' = ConfigChannels(p_op.cfg.pins)
                    /\ UNCHANGED <<tim1_moe, tim1_ccr>>
                    /\ p_pc' = "p_moe" /\ p_ret' = p_ret
    /\ UNCHANGED <<gpio_done, p_op, p_half, p_pre, p_calls>>

\* the end of pwm_tim1_init: MOE = 1, the compare registers cleared
p_moe ==
    /\ p_pc = "p_moe"
    /\ tim1_moe' = TRUE
    /\ tim1_ccr' = [ch \in PWM_CHANNELS |-> 0]
    /\ p_pc' = "done" /\ p_ret' = TRUE
    /\ UNCHANGED <<pwm_arr, tim1_psc, tim1_arr, tim1_cms, tim1_cen,
                   tim1_ccer, gpio_done, p_op, p_half, p_psc, p_pre, p_calls>>

\* mutant: the duty is stored without saturation
SetDuty_NoSat(ccr, arr, ch, duty) ==
    IF ch \in PWM_CHANNELS THEN [ccr EXCEPT ![ch] = duty] ELSE ccr

\* pwm_tim1_set_duty on a valid handle: the compare registers it leaves
SetDuty(ccr, arr, ch, duty) ==
    LET sat == IF duty > arr THEN arr ELSE duty
    IN  IF ch \in PWM_CHANNELS THEN [ccr EXCEPT ![ch] = sat] ELSE ccr

pwm_tim1_set_duty(pwm_h, ch, duty) ==
    /\ p_pc = "idle"
    /\ p_op' = [name |-> "pwm_tim1_set_duty", h |-> pwm_h, ch |-> ch,
                duty |-> duty]
    /\ p_pre' = tim1_ccr
    /\ p_calls' = p_calls + 1
    /\ p_pc' = "done"
    /\ IF pwm_h = "NULL"
       THEN p_ret' = FALSE /\ tim1_ccr' = tim1_ccr
       ELSE /\ tim1_ccr' = SetDuty(tim1_ccr, pwm_arr, ch, duty)
            /\ p_ret' = (ch \in PWM_CHANNELS)
    /\ UNCHANGED <<pwm_arr, tim1_psc, tim1_arr, tim1_cms, tim1_moe, tim1_cen,
                   tim1_ccer, gpio_done, p_half, p_psc>>

\* mutant: the product is kept in 16 bits
PermyriadDuty_Mul16(duty_permyriad, arr) ==
    ((Min(duty_permyriad, 10000) * arr) % U16) \div 10000

\* the compare value pwm_set_duty_permyriad computes (the product is below
\* 2^32, the quotient below 2^16)
PermyriadDuty(duty_permyriad, arr) ==
    ((Min(duty_permyriad, 10000) * arr) \div 10000) % U16

pwm_set_duty_permyriad(pwm_h, ch, duty_permyriad) ==
    /\ p_pc = "idle"
    /\ p_op' = [name |-> "pwm_set_duty_permyriad", h |-> pwm_h, ch |-> ch,
                duty |-> duty_permyriad]
    /\ p_pre' = tim1_ccr
    /\ p_calls' = p_calls + 1
    /\ p_pc' = "done" /\ p_ret' = FALSE
    /\ IF pwm_h = "NULL" \/ ch < 1 \/ ch > 3
       THEN tim1_ccr' = tim1_ccr
       ELSE tim1_ccr' = SetDuty(tim1_ccr, pwm_arr, ch,
                                PermyriadDuty(duty_permyriad, pwm_arr))
    /\ UNCHANGED <<pwm_arr, tim1_psc, tim1_arr, tim1_cms, tim1_moe, tim1_cen,
                   tim1_ccer, gpio_done, p_half, p_psc>>

\* pwm_tim1_start: the handle check, and the output gate enabled
pwm_tim1_start(pwm_h) ==
    /\ p_pc = "idle"
    /\ p_op' = [name |-> "pwm_tim1_start", h |-> pwm_h]
    /\ p_pre' = tim1_ccr
    /\ p_calls' = p_calls + 1
    /\ IF pwm_h = "NULL"
       THEN p_pc' = "done" /\ p_ret' = FALSE /\ tim1_moe' = tim1_moe
       ELSE p_pc' = "s_cen" /\ p_ret' = p_ret /\ tim1_moe' = TRUE
    /\ UNCHANGED <<pwm_arr, tim1_psc, tim1_arr, tim1_ccr, tim1_cms, tim1_cen,
                   tim1_ccer, gpio_done, p_half, p_psc>>

\* pwm_tim1_start: the counter started
s_cen ==
    /\ p_pc = "s_cen"
    /\ tim1_cen' = TRUE
    /\ p_pc' = "done" /\ p_ret' = TRUE
    /\ UNCHANGED <<pwm_arr, tim1_psc, tim1_arr, tim1_ccr, tim1_cms, tim1_moe,
                   tim1_ccer, gpio_done, p_op, p_half, p_psc, p_pre, p_calls>>

\* pwm_tim1_stop: the handle check, and the counter stopped
pwm_tim1_stop(pwm_h) ==
    /\ p_pc = "idle"
    /\ p_op' = [name |-> "pwm_tim1_stop", h |-> pwm_h]
    /\ p_pre' = tim1_ccr
    /\ p_calls' = p_calls + 1
    /\ IF pwm_h = "NULL"
       THEN p_pc' = "done" /\ p_ret' = FALSE /\ tim1_cen' = tim1_cen
       ELSE p_pc' = "t_moe" /\ p_ret' = p_ret /\ tim1_cen' = FALSE
    /\ UNCHANGED <<pwm_arr, tim1_psc, tim1_arr, tim1_ccr, tim1_cms, tim1_moe,
                   tim1_ccer, gpio_done, p_half, p_psc>>

\* pwm_tim1_stop: the output gate disabled
t_moe ==
    /\ p_pc = "t_moe"
    /\ tim1_moe' = FALSE
    /\ p_pc' = "done" /\ p_ret' = TRUE
    /\ UNCHANGED <<pwm_arr, tim1_psc, tim1_arr, tim1_ccr, tim1_cms, tim1_cen,
                   tim1_ccer, gpio_done, p_op, p_half, p_psc, p_pre, p_calls>>

\* the caller takes the result
p_return ==
    /\ p_pc = "done"
    /\ p_pc' = "idle" /\ p_op' = [name |-> "none"] /\ p_half' = 0
    /\ p_psc' = 0 /\ p_ret' = FALSE /\ p_pre' = <<>>
    /\ UNCHANGED <<pwmRegs, gpio_done, p_calls>>

(***************************************************************************)
(* Unsigned integers of the widths the SysTick driver computes with.       *)
(* A uint32_t is a sequence of 4 bytes and a uint64_t a sequence of 8      *)
(* bytes, least significant byte first, so that values of 2^31 and above   *)
(* and the 64-bit products are computed exactly.                           *)
(***************************************************************************)
\* the w-byte value of a number n below 2^31
RECURSIVE Limbs(_, _)
Limbs(n, w) == IF w = 0 THEN <<>> ELSE <<n % U8>> \o Limbs(n \div U8, w - 1)

\* the number a value below 2^31 stands for
RECURSIVE Small(_)
Small(a) == IF a = <<>> THEN 0 ELSE a[1] + U8 * Small(Tail(a))

\* byte i of a, zero beyond its width
Dig(a, i) == IF i \in 1 .. Len(a) THEN a[i] ELSE 0

IsZero(a) == \A i \in 1 .. Len(a) : a[i] = 0

\* whether a value fits 31 bits, so that Small applies
FitsSmall(a) == \A i \in 1 .. Len(a) : (i > 4 => a[i] = 0) /\ (i = 4 => a[i] < 128)

\* a conversion between widths: (uint64_t)a widens, (uint32_t)a truncates
Cast(a, w) == [i \in 1 .. w |-> Dig(a, i)]

\* a + b in w bytes, wrapping
RECURSIVE AddCarry(_, _, _, _, _)
AddCarry(a, b, w, i, c) ==
    IF i > w THEN <<>>
    ELSE LET s == Dig(a, i) + Dig(b, i) + c
         IN  <<s % U8>> \o AddCarry(a, b, w, i + 1, s \div U8)

Add(a, b, w) == AddCarry(a, b, w, 1, 0)

\* a - b in w bytes, wrapping
RECURSIVE SubBorrow(_, _, _, _, _)
SubBorrow(a, b, w, i, c) ==
    IF i > w THEN <<>>
    ELSE LET s == Dig(a, i) - Dig(b, i) - c
         IN  <<(s + U8) % U8>> \o SubBorrow(a, b, w, i + 1, IF s < 0 THEN 1 ELSE 0)

Sub(a, b, w) == SubBorrow(a, b, w, 1, 0)

\* a < b for values of equal width
RECURSIVE LessFrom(_, _, _)
LessFrom(a, b, i) ==
    IF i = 0 THEN FALSE
    ELSE IF Dig(a, i) # Dig(b, i) THEN Dig(a, i) < Dig(b, i)
    ELSE LessFrom(a, b, i - 1)

Less(a, b) == LessFrom(a, b, Max(Len(a), Len(b)))

\* a * b in 64 bits, wrapping; the product of two widened uint32_t never
\* wraps
MulCol(a, b, k) ==
    Dig(a, 1) * Dig(b, k) + Dig(a, 2) * Dig(b, k - 1)
    + Dig(a, 3) * Dig(b, k - 2) + Dig(a, 4) * Dig(b, k - 3)
    + Dig(a, 5) * Dig(b, k - 4) + Dig(a, 6) * Dig(b, k - 5)
    + Dig(a, 7) * Dig(b, k - 6) + Dig(a, 8) * Dig(b, k - 7)

RECURSIVE MulCarry(_, _, _, _)
MulCarry(a, b, k, c) ==
    IF k > 8 THEN <<>>
    ELSE LET s == MulCol(a, b, k) + c
         IN  <<s % U8>> \o MulCarry(a, b, k + 1, s \div U8)

Mul64(a, b) == MulCarry(a, b, 1, 0)

\* a / d in 64 bits for d # 0, by binary long division from the top bit.
\* One step takes the remainder r of the bits above and the next bit b.
DivStepWord(r, b, d) ==
    IF 2 * r + b < d THEN [q |-> 0, r |-> 2 * r + b]
    ELSE [q |-> 1, r |-> 2 * r + b - d]

DivStepWide(r, b, d) ==
    LET r2 == Add(Add(r, r, 8), Limbs(b, 8), 8)
    IN  IF Less(r2, d) THEN [q |-> 0, r |-> r2]
        ELSE [q |-> 1, r |-> Sub(r2, d, 8)]

\* a divisor below 2^30 keeps the remainders in a machine word
Divisor(d) ==
    IF FitsSmall(d) /\ Small(d) < 2 ^ 30
    THEN [word |-> TRUE, v |-> Small(d), zero |-> 0]
    ELSE [word |-> FALSE, v |-> Cast(d, 8), zero |-> Limbs(0, 8)]

DivStep(r, b, d) ==
    IF d.word THEN DivStepWord(r, b, d.v) ELSE DivStepWide(r, b, d.v)

\* the n low bits of the byte x: their quotient bits and the remainder
RECURSIVE DivByte(_, _, _, _)
DivByte(r, x, n, d) ==
    IF n = 0 THEN [q |-> 0, r |-> r]
    ELSE LET s == DivStep(r, (x \div 2 ^ (n - 1)) % 2, d)
             rest == DivByte(s.r, x, n - 1, d)
         IN  [q |-> s.q * 2 ^ (n - 1) + rest.q, r |-> rest.r]

\* the bytes i .. 1 of a: the quotient's bytes, most significant first
RECURSIVE DivLimbs(_, _, _, _)
DivLimbs(a, d, i, r) ==
    IF i = 0 THEN <<>>
    ELSE LET s == DivByte(r, a[i], 8, d)
         IN  <<s.q>> \o DivLimbs(a, d, i - 1, s.r)

Div64(a, d) ==
    LET dd == Divisor(d)
        q == DivLimbs(a, dd, 8, dd.zero)
    IN  [k \in 1 .. 8 |-> q[9 - k]]

(***************************************************************************)
(* SysTick driver: SYSTICK_Init, SYSTICK_IrqHandler, SYSTICK_GetTick,      *)
(* SYSTICK_GetTimeMs, SYSTICK_GetTimeUs, SYSTICK_ElapsedMs and             *)
(* SYSTICK_ElapsedUs, with the SysTick down-counter.  A result is observed *)
(* at the call's return, before any further interrupt.                     *)
(***************************************************************************)
NoCfg == [ptr |-> "NULL", sysclk_hz |-> Limbs(0, 4),
          tick_period_us |-> Limbs(0, 4), irq_prio |-> 0]

NoMark == [name |-> "none"]

TickReset ==
    /\ s_cfg = NoCfg /\ s_h = "NULL" /\ tick_count = Limbs(0, 4)
    /\ s_load = 0
    /\ syst_load = 0 /\ syst_val = 0 /\ syst_ctrl = {} /\ syst_prio = 0
    /\ syst_pend = FALSE
    /\ k_pc = "idle" /\ k_op = [name |-> "none"] /\ k_ret = FALSE
    /\ k_pre = <<>> /\ k_i = 0 /\ k_t1 = Limbs(0, 4) /\ k_val = 0
    /\ k_mark = NoMark
    /\ n_irq = Limbs(0, 5) /\ k_inited = FALSE /\ k_calls = 0 /\ k_irqs = 0

\* the locals of a call that is not SYSTICK_GetTimeUs
tickIdleFrame == <<k_i, k_t1, k_val>>

\* cycles_per_tick = ((uint64_t)sysclk_hz * (uint64_t)tick_period_us)
\*                   / 1000000ull
CyclesPerTick_Mul32(cfg) ==
    Div64(Cast(Cast(Mul64(cfg.sysclk_hz, cfg.tick_period_us), 4), 8),
          Limbs(1000000, 4))

CyclesPerTick(cfg) ==
    Div64(Mul64(cfg.sysclk_hz, cfg.tick_period_us), Limbs(1000000, 4))

\* load_u64 > 0x00FFFFFFull
LoadTooBig(load_u64) == Less(Cast(<<U8 - 1, U8 - 1, U8 - 1>>, 8), load_u64)

\* SYSTICK_Init
SYSTICK_Init(systick_cfg, systick_h) ==
    /\ k_pc = "idle"
    /\ k_op' = [name |-> "SYSTICK_Init", cfg |-> systick_cfg,
                h |-> systick_h]
    /\ k_pre' = tickRegs
    /\ k_calls' = k_calls + 1
    /\ k_pc' = "done"
    /\ IF \/ systick_cfg.ptr = "NULL" \/ systick_h = "NULL"
          \/ IsZero(systick_cfg.sysclk_hz)
          \/ IsZero(systick_cfg.tick_period_us)
       THEN /\ k_ret' = FALSE
            /\ UNCHANGED <<tickRegs, n_irq, k_inited, k_mark>>
       ELSE LET cycles_per_tick == CyclesPerTick(systick_cfg)
                load_u64 == Sub(cycles_per_tick, Limbs(1, 8), 8)
            IN  /\ s_cfg' = systick_cfg
                /\ s_h' = systick_h
                /\ tick_count' = Limbs(0, 4)
                /\ n_irq' = Limbs(0, 5)
                /\ k_mark' = NoMark
                /\ IF IsZero(cycles_per_tick) \/ LoadTooBig(load_u64)
                   THEN /\ k_ret' = FALSE /\ k_inited' = FALSE
                        /\ UNCHANGED <<s_load, syst_load, syst_val,
                                       syst_ctrl, syst_prio>>
                   ELSE /\ s_load' = Small(Cast(load_u64, 4))
                        /\ syst_load' = Small(Cast(load_u64, 4))
                        \* VAL = 0u, then ENABLE: the counter loads LOAD on
                        \* its first clock, before the call returns
                        /\ syst_val' = Small(Cast(load_u64, 4))
                        /\ syst_prio' = systick_cfg.irq_prio
                        /\ syst_ctrl' = {"CLKSOURCE", "TICKINT", "ENABLE"}
                        /\ k_ret' = TRUE /\ k_inited' = TRUE
    /\ UNCHANGED <<syst_pend, tickIdleFrame, k_irqs>>

\* tick_count after k runs of SYSTICK_IrqHandler: s_h->tick_count++ each
IrqTicks(count, k) == IF s_h # "NULL" THEN Add(count, k, 4) ELSE count

\* SysTick_Handler: the pending exception is taken; exception entry
\* outlasts the one clock the down-counter rests at 0, so the handler
\* runs after the reload
SYSTICK_IrqHandler ==
    /\ syst_pend /\ k_pc # "done"
    /\ syst_pend' = FALSE
    /\ syst_val' = IF syst_val = 0 THEN syst_load ELSE syst_val
    /\ tick_count' = IrqTicks(tick_count, Limbs(1, 4))
    /\ n_irq' = Add(n_irq, Limbs(1, 5), 5)
    /\ k_irqs' = k_irqs + 1
    /\ UNCHANGED <<s_cfg, s_h, s_load, syst_load, syst_ctrl,
                   syst_prio, k_pc, k_op, k_ret, k_pre, k_i, k_t1, k_val,
                   k_mark, k_inited, k_calls>>

\* k whole tick periods pass, SysTick_Handler running once in each
SysTickPeriods(k) ==
    /\ {"ENABLE", "TICKINT"} \subseteq syst_ctrl /\ syst_load > 0
    /\ ~syst_pend /\ k_pc # "done"
    /\ tick_count' = IrqTicks(tick_count, k)
    /\ n_irq' = Add(n_irq, k, 5)
    /\ k_irqs' = k_irqs + 1
    /\ UNCHANGED <<s_cfg, s_h, s_load, syst_load, syst_val, syst_ctrl,
                   syst_prio, syst_pend, k_pc, k_op, k_ret, k_pre, k_i, k_t1,
                   k_val, k_mark, k_inited, k_calls>>

\* the values of the down-counter the model distinguishes
ValSamples(load) == {0, load \div 2, load}

\* only SYSTICK_GetTimeUs reads the down-counter: its motion within a
\* period is followed while that call is in progress
ValObserved == k_pc \in {"u_t1", "u_val", "u_t2", "u_fb"}

\* the down-counter counts down to v; reaching 0 pends the exception
SysTickCount(v) ==
    /\ "ENABLE" \in syst_ctrl /\ ValObserved
    /\ v \in ValSamples(syst_load) /\ v < syst_val
    /\ syst_val' = v
    /\ syst_pend' = (syst_pend \/ (v = 0 /\ "TICKINT" \in syst_ctrl))
    /\ UNCHANGED <<s_cfg, s_h, tick_count, s_load, syst_load, syst_ctrl,
                   syst_prio, k_pc, k_op, k_ret, k_pre, k_i, k_t1, k_val,
                   k_mark, n_irq, k_inited, k_calls, k_irqs>>

\* the down-counter at 0 reloads from LOAD
SysTickReload ==
    /\ "ENABLE" \in syst_ctrl /\ ValObserved
    /\ syst_val = 0 /\ syst_load > 0
    /\ syst_val' = syst_load
    /\ UNCHANGED <<s_cfg, s_h, tick_count, s_load, syst_load, syst_ctrl,
                   syst_prio, syst_pend, k_pc, k_op, k_ret, k_pre, k_i, k_t1,
                   k_val, k_mark, n_irq, k_inited, k_calls, k_irqs>>

\* a call that reads the driver state in one step and returns
TickAtomicCall(name, result) ==
    /\ k_pc = "idle"
    /\ k_op' = [name |-> name, n |-> n_irq]
    /\ k_pre' = tickRegs
    /\ k_calls' = k_calls + 1
    /\ k_pc' = "done"
    /\ k_ret' = result
    /\ UNCHANGED <<tickRegs, syst_pend, tickIdleFrame, k_mark, n_irq,
                   k_inited, k_irqs>>

SYSTICK_GetTick ==
    TickAtomicCall("SYSTICK_GetTick",
                   IF s_h # "NULL" THEN tick_count ELSE Limbs(0, 4))

\* (uint32_t)(((uint64_t)tick_count * (uint64_t)tick_period_us) / 1000ull)
TimeMs_Mul32(count, period) ==
    Cast(Div64(Cast(Cast(Mul64(count, period), 4), 8), Limbs(1000, 4)), 4)

TimeMs(count, period) == Cast(Div64(Mul64(count, period), Limbs(1000, 4)), 4)

SYSTICK_GetTimeMs ==
    TickAtomicCall("SYSTICK_GetTimeMs",
                   IF s_cfg.ptr = "NULL" \/ s_h = "NULL" THEN Limbs(0, 4)
                   ELSE TimeMs(tick_count, s_cfg.tick_period_us))

\* SYSTICK_GetTimeUs: the check of the driver state
SYSTICK_GetTimeUs_call ==
    /\ k_pc = "idle"
    /\ k_op' = [name |-> "SYSTICK_GetTimeUs", n |-> n_irq]
    /\ k_pre' = tickRegs
    /\ k_calls' = k_calls + 1
    /\ IF s_cfg.ptr = "NULL" \/ s_h = "NULL"
       THEN k_pc' = "done" /\ k_ret' = Limbs(0, 8)
       ELSE k_pc' = "u_t1" /\ k_ret' = k_ret
    /\ UNCHANGED <<tickRegs, syst_pend, tickIdleFrame, k_mark, n_irq,
                   k_inited, k_irqs>>

\* t1 = s_h->tick_count
u_t1 ==
    /\ k_pc = "u_t1"
    /\ k_t1' = tick_count
    /\ k_pc' = "u_val"
    /\ UNCHANGED <<tickRegs, syst_pend, k_op, k_ret, k_pre, k_i, k_val,
                   k_mark, n_irq, k_inited, k_calls, k_irqs>>

\* val = SysTick->VAL
u_val ==
    /\ k_pc = "u_val"
    /\ k_val' = syst_val
    /\ k_pc' = "u_t2"
    /\ UNCHANGED <<tickRegs, syst_pend, k_op, k_ret, k_pre, k_i, k_t1,
                   k_mark, n_irq, k_inited, k_calls, k_irqs>>

\* t1 * tick_period_us + ((s_load - val) * 1000000ull) / sysclk_hz
TimeUs(t1, val) ==
    LET elapsed_cycles == Sub(Limbs(s_load, 4), Limbs(val, 4), 4)
        us_in_tick == Div64(Mul64(elapsed_cycles, Limbs(1000000, 4)),
                            s_cfg.sysclk_hz)
    IN  Add(Mul64(t1, s_cfg.tick_period_us), us_in_tick, 8)

\* t2 = s_h->tick_count; the result when t1 == t2, else the next attempt
u_t2 ==
    /\ k_pc = "u_t2"
    /\ IF k_t1 = tick_count
       THEN /\ k_ret' = TimeUs(k_t1, k_val)
            /\ k_op' = [k_op EXCEPT !.n = n_irq]
            /\ k_pc' = "done" /\ k_i' = k_i
       ELSE /\ k_i' = k_i + 1
            /\ k_pc' = IF k_i + 1 < 3 THEN "u_t1" ELSE "u_fb"
            /\ UNCHANGED <<k_ret, k_op>>
    /\ UNCHANGED <<tickRegs, syst_pend, k_pre, k_t1, k_val, k_mark, n_irq,
                   k_inited, k_calls, k_irqs>>

\* the fallback: (uint64_t)tick_count * (uint64_t)tick_period_us
u_fb ==
    /\ k_pc = "u_fb"
    /\ k_ret' = Mul64(tick_count, s_cfg.tick_period_us)
    /\ k_op' = [k_op EXCEPT !.n = n_irq]
    /\ k_pc' = "done"
    /\ UNCHANGED <<tickRegs, syst_pend, k_pre, k_i, k_t1, k_val, k_mark,
                   n_irq, k_inited, k_calls, k_irqs>>

\* (uint32_t)(now_ms - start_ms) and (uint64_t)(now_us - start_us)
ElapsedMs_Abs(now_ms, start_ms) ==
    IF Less(now_ms, start_ms) THEN Sub(start_ms, now_ms, 4)
    ELSE Sub(now_ms, start_ms, 4)

ElapsedMs(now_ms, start_ms) == Sub(now_ms, start_ms, 4)

ElapsedUs(now_us, start_us) == Sub(now_us, start_us, 8)

\* SYSTICK_ElapsedMs and SYSTICK_ElapsedUs on a start value and the value
\* d later of a counter of w bytes
SYSTICK_Elapsed(w, start, d) ==
    /\ k_pc = "idle"
    /\ k_op' = [name |-> IF w = 4 THEN "SYSTICK_ElapsedMs"
                         ELSE "SYSTICK_ElapsedUs",
                now |-> Add(start, d, w), start |-> start, d |-> d,
                from |-> "caller", wrapped |-> Less(Add(start, d, w), start)]
    /\ k_ret' = IF w = 4 THEN ElapsedMs(Add(start, d, w), start)
                ELSE ElapsedUs(Add(start, d, w), start)
    /\ k_pre' = tickRegs
    /\ k_calls' = k_calls + 1
    /\ k_pc' = "done"
    /\ UNCHANGED <<tickRegs, syst_pend, tickIdleFrame, k_mark, n_irq,
                   k_inited, k_irqs>>

TimeCalls == {"SYSTICK_GetTimeMs", "SYSTICK_GetTimeUs"}

\* the caller passes the timestamp just returned and the one it kept to
\* SYSTICK_ElapsedMs or SYSTICK_ElapsedUs
SYSTICK_ElapsedSince ==
    /\ k_pc = "done" /\ k_op.name \in TimeCalls /\ k_mark.name = k_op.name
    /\ k_op' = [name |-> IF k_op.name = "SYSTICK_GetTimeMs"
                         THEN "SYSTICK_ElapsedMs" ELSE "SYSTICK_ElapsedUs",
                now |-> k_ret, start |-> k_mark.val,
                d |-> Sub(k_op.n, k_mark.n, 5), from |-> "clock",
                wrapped |-> k_op.n[5] # k_mark.n[5]]
    /\ k_ret' = IF k_op.name = "SYSTICK_GetTimeMs"
                THEN ElapsedMs(k_ret, k_mark.val)
                ELSE ElapsedUs(k_ret, k_mark.val)
    /\ UNCHANGED <<tickRegs, syst_pend, k_pc, k_pre, tickIdleFrame, k_mark,
                   n_irq, k_inited, k_calls, k_irqs>>

\* the caller takes the result, keeping a timestamp or not
k_return(keep) ==
    /\ k_pc = "done"
    /\ k_pc' = "idle" /\ k_op' = [name |-> "none"] /\ k_ret' = FALSE
    /\ k_pre' = <<>> /\ k_i' = 0 /\ k_t1' = Limbs(0, 4) /\ k_val' = 0
    /\ k_mark' = IF keep /\ k_op.name \in TimeCalls
                 THEN [name |-> k_op.name, val |-> k_ret, n |-> k_op.n]
                 ELSE k_mark
    /\ UNCHANGED <<tickRegs, syst_pend, n_irq, k_inited, k_calls, k_irqs>>

(***************************************************************************)
(* baud_rate_config (usart2.c): the USART_BRR value for a peripheral clock *)
(* and a baud rate, in 32-bit unsigned arithmetic.                         *)
(***************************************************************************)
NoBaudCfg ==
    [ptr |-> "NULL", usart_pclk_hz |-> Limbs(0, 4), usart_baud |-> Limbs(0, 4)]

BrrReset == b_pc = "idle" /\ b_cfg = NoBaudCfg /\ b_ret = Limbs(0, 4)

\* the uint32_t with the 16-bit halves hi and lo
Word(hi, lo) ==
    Cast(Add(Mul64(Limbs(hi, 4), Limbs(U16, 4)), Limbs(lo, 4), 8), 4)

\* a * b, n / d and n % d on uint32_t; a division by zero that does not
\* trap yields 0
Mul32u(a, b) == Cast(Mul64(a, b), 4)

Div32u(n, d) ==
    IF IsZero(d) THEN Limbs(0, 4) ELSE Cast(Div64(Cast(n, 8), d), 4)

Mod32u(n, d) == Cast(Sub(Cast(n, 8), Mul64(Div32u(n, d), d), 8), 4)

\* 16u * usart_cfg->usart_baud
Baud16(baud) == Mul32u(Limbs(16, 4), baud)

\* mantissa and fraction when the return statement is reached
BaudLocals(pclk, baud) ==
    LET mantissa == Div32u(pclk, Baud16(baud))
        rem == Mod32u(pclk, Baud16(baud))
        fraction == Div32u(Add(rem, Div32u(baud, Limbs(2, 4)), 4), baud)
    IN  IF ~Less(fraction, Limbs(16, 4))
        THEN [mantissa |-> Add(mantissa, Limbs(1, 4), 4),
              fraction |-> Limbs(0, 4)]
        ELSE [mantissa |-> mantissa, fraction |-> fraction]

\* (fraction & 0x0FU) | (mantissa << 4): the shift leaves the four low bits
\* zero, the OR puts the four low bits of fraction there
BrrPack(l) ==
    LET shifted == Mul32u(l.mantissa, Limbs(16, 4))
    IN  [shifted EXCEPT ![1] = shifted[1] + (l.fraction[1] % 16)]

\* baud_rate_config(&b_cfg); 16u * usart_baud == 0 with usart_baud # 0 is a
\* division by zero, undefined behaviour: the call traps, or goes on with
\* a quotient of 0
baud_rate_config ==
    /\ b_pc = "idle"
    /\ IF b_cfg.ptr = "NULL" \/ IsZero(b_cfg.usart_baud)
       THEN b_pc' = "done" /\ b_ret' = Limbs(0, 4)
       ELSE \/ /\ IsZero(Baud16(b_cfg.usart_baud))
               /\ b_pc' = "fault" /\ b_ret' = b_ret
            \/ /\ b_pc' = "done"
               /\ b_ret' = BrrPack(BaudLocals(b_cfg.usart_pclk_hz,
                                              b_cfg.usart_baud))
    /\ b_cfg' = b_cfg

(***************************************************************************)
(* Specifications                                                          *)
(***************************************************************************)
UartReset(size) ==
    /\ bufSize = size
    /\ rx = [buf |-> [i \in 0..(size - 1) |-> 0],
             head |-> 0, tail |-> 0, drop_cnt |-> 0]
    /\ tx = [buf |-> [i \in 0..(size - 1) |-> 0],
             head |-> 0, tail |-> 0, drop_cnt |-> 0]
    /\ err = [ore |-> 0, fe |-> 0, ne |-> 0, pe |-> 0]
    /\ cr1 = {}
    /\ pc = "reset"
    /\ op = NoOp
    /\ cnt = 0 /\ f_head = 0 /\ f_tail = 0 /\ f_cr1 = {}
    /\ out = <<>> /\ ret = 0
    /\ txPushed = <<>> /\ txWire = <<>> /\ rxPushed = <<>> /\ rxPopped = <<>>
    /\ txOffered = 0 /\ rxArrived = 0 /\ rxRecv = 0 /\ rxErrBytes = 0
    /\ calls = 0 /\ isrs = 0 /\ errIsrs = 0
    /\ pre = NoPre
    /\ isrInCall = FALSE

\* The full-size build is driven through one fixed scenario (write FullLen
\* bytes with the transmitter stalled, then receive more bytes than the RX
\* buffer holds, then read FullLen bytes); the scaled build is driven freely.
Scripted == bufSize = UART_BUFFER_SIZE

FullIsrs == UART_BUFFER_SIZE + FullRxExtra

WriteLens ==
    IF Scripted
    THEN IF calls = 0 THEN {FullLen} ELSE {}
    ELSE IF calls < MaxCalls THEN (0..MaxLen) \cup {U16 + MaxLen} ELSE {}

ReadLens ==
    IF Scripted
    THEN IF calls = 1 /\ isrs = FullIsrs THEN {FullLen} ELSE {}
    ELSE IF calls < MaxCalls THEN 0..MaxLen ELSE {}

\* status-register values presented to the handler
SrValues ==
    IF Scripted
    THEN IF pc = "idle" /\ calls = 1 /\ isrs < FullIsrs
         THEN {{"RXNE"}} ELSE {}
    ELSE IF isrs < MaxIsr
         THEN {{"RXNE"}, {"TXE"}, {"RXNE", "TXE"}}
              \cup (IF errIsrs < MaxErrIsr
                    THEN {{"ORE", "RXNE"}, {"FE", "NE", "PE", "RXNE", "TXE"}}
                    ELSE {})
         ELSE {}

UartFg ==
    \/ usart2_init
    \/ \E len \in WriteLens : usart2_write_call(len)
    \/ w_head \/ w_tail \/ w_chk \/ w_adv \/ w_epi \/ w_cr1
    \/ \E max_len \in ReadLens : usart2_read_call(max_len)
    \/ r_head \/ r_tail \/ r_chk \/ r_adv
    \/ fg_return

UartIsr == \E sr \in SrValues : usart2_irq_handler(sr)

InitUart ==
    /\ UartReset(2 ^ BufBits) \/ UartReset(UART_BUFFER_SIZE)
    /\ AdcReset(ADC_MODE_SINGLE)
    /\ ExtiReset
    /\ PwmReset
    /\ TickReset
    /\ BrrReset

NextUart ==
    (UartFg \/ UartIsr) /\ UNCHANGED <<adcVars, extiVars, pwmVars, tickVars, brrVars>>

SpecUart == InitUart /\ [][NextUart]_vars

(***************************************************************************)
(* The USART2 driver initialised over a handle and a CR1 that were in use  *)
(* before: usart2_init receives the caller's memory as it is (the ring     *)
(* buffers' indices and drop counters, the four error counters), and CR1   *)
(* may still have TXEIE set.  pre holds what usart2_init was entered       *)
(* with.  The USART2 interrupt is not enabled in the NVIC before           *)
(* usart2_init.                                                            *)
(***************************************************************************)
UsedRing == [buf : {[i \in 0 .. (2 ^ BufBits - 1) |-> 0]},
             head : 0 .. 1, tail : 0 .. 1, drop_cnt : 0 .. 1]

UsedErr == {[ore |-> n, fe |-> n, ne |-> n, pe |-> n] : n \in 0 .. 1}

UsedCr1 == {{}, {"TXEIE"}}

UartUsed ==
    /\ bufSize = 2 ^ BufBits
    /\ rx \in UsedRing
    /\ tx \in UsedRing
    /\ err \in UsedErr
    /\ cr1 \in UsedCr1
    /\ pc = "reset"
    /\ op = NoOp
    /\ cnt = 0 /\ f_head = 0 /\ f_tail = 0 /\ f_cr1 = {}
    /\ out = <<>> /\ ret = 0
    /\ txPushed = <<>> /\ txWire = <<>> /\ rxPushed = <<>> /\ rxPopped = <<>>
    /\ txOffered = 0 /\ rxArrived = 0 /\ rxRecv = 0 /\ rxErrBytes = 0
    /\ calls = 0 /\ isrs = 0 /\ errIsrs = 0
    /\ pre = [rx |-> rx, tx |-> tx, err |-> err, cr1 |-> cr1, out |-> out]
    /\ isrInCall = FALSE

InitUartUsed ==
    /\ UartUsed
    /\ AdcReset(ADC_MODE_SINGLE)
    /\ ExtiReset
    /\ PwmReset
    /\ TickReset
    /\ BrrReset

SpecUartUsed == InitUartUsed /\ [][NextUart]_vars

(***************************************************************************)
(* The USART2 driver with a transmitter that keeps running: the USART2     *)
(* interrupt is taken whenever TXE and TXEIE are both set, as often as     *)
(* the driver leaves it pending, and the foreground, when it is inside a   *)
(* call, goes on.  Receive interrupts and line errors arrive as in         *)
(* SpecUart.                                                               *)
(***************************************************************************)
FairWriteLens == IF calls < MaxCalls THEN 0 .. MaxLen ELSE {}

UartFairFg ==
    \/ usart2_init
    \/ \E len \in FairWriteLens : usart2_write_call(len)
    \/ \E max_len \in ReadLens : usart2_read_call(max_len)

\* the next statement of the call in progress, or its return
UartFgStep ==
    /\ \/ w_head \/ w_tail \/ w_chk \/ w_adv \/ w_epi \/ w_cr1
       \/ r_head \/ r_tail \/ r_chk \/ r_adv
       \/ fg_return
    /\ UNCHANGED <<adcVars, extiVars, pwmVars, tickVars, brrVars>>

\* the transmit-empty interrupt: pending while TXE and TXEIE are set
UartTxIrq ==
    /\ "TXEIE" \in cr1 /\ usart2_irq_handler({"TXE"})
    /\ UNCHANGED <<adcVars, extiVars, pwmVars, tickVars, brrVars>>

InitUartFair ==
    /\ UartReset(2 ^ BufBits)
    /\ AdcReset(ADC_MODE_SINGLE)
    /\ ExtiReset
    /\ PwmReset
    /\ TickReset
    /\ BrrReset

NextUartFair ==
    \/ UartFairFg /\ UNCHANGED <<adcVars, extiVars, pwmVars, tickVars, brrVars>>
    \/ UartFgStep
    \/ UartTxIrq
    \/ UartIsr /\ UNCHANGED <<adcVars, extiVars, pwmVars, tickVars, brrVars>>

SpecUartFair ==
    /\ InitUartFair /\ [][NextUartFair]_vars
    /\ WF_vars(UartFgStep) /\ WF_vars(UartTxIrq)

(***************************************************************************)
(* The ADC driver under every placement of its handler and of the          *)
(* converter's completions.                                                *)
(***************************************************************************)
AdcFg ==
    \/ adc_init
    \/ calls < MaxAdcCalls /\ adc_start_call
    \/ s_sw
    \/ \E h \in {"ADC1_IN0_H", "NULL"}, outp \in {"value", "NULL"} :
           calls < MaxAdcCalls /\ adc_read_call(h, outp)
    \/ a_rdy \/ a_copy \/ a_clear
    \/ adc_return

InitAdc ==
    /\ UartReset(2 ^ BufBits)
    /\ \E mode \in {ADC_MODE_CONTINUOUS, ADC_MODE_SINGLE} : AdcReset(mode)
    /\ ExtiReset
    /\ PwmReset
    /\ TickReset
    /\ BrrReset

NextAdc ==
    (AdcFg \/ adc_hw_complete \/ adc_irq_handler)
    /\ UNCHANGED <<extiVars, pwmVars, tickVars, brrVars>>

SpecAdc == InitAdc /\ [][NextAdc]_vars

(***************************************************************************)
(* The EXTI driver: registrations in the foreground, dispatches from the   *)
(* interrupt handlers (also between the two stores of a registration),     *)
(* edges latched by the hardware at any time.                              *)
(***************************************************************************)
RegLines == {9, 13, 16}
RegCallbacks == {"NULL", "cbA", "cbB"}
RegArgs == {"argA", "argB"}
EdgeLines == {9, 13, 14}

ExtiRegInputs == IF e_regs < MaxReg THEN RegLines ELSE {}
ExtiDispInputs == IF e_disps < MaxDisp THEN IrqRanges ELSE {}
ExtiEdgeInputs == IF e_edges < MaxEdges THEN EdgeLines ELSE {}

ExtiFg ==
    \/ \E line \in ExtiRegInputs, cb \in RegCallbacks, arg \in RegArgs :
           exti_register_call(line, cb, arg)
    \/ r_arg
    \/ r_return

ExtiIsr ==
    \/ \E rng \in ExtiDispInputs : exti_dispatch_call(rng[1], rng[2])
    \/ d_loop
    \/ d_return

ExtiHw == \E line \in ExtiEdgeInputs : EdgeLatch(line)

InitExti ==
    /\ UartReset(2 ^ BufBits)
    /\ AdcReset(ADC_MODE_SINGLE)
    /\ ExtiReset
    /\ PwmReset
    /\ TickReset
    /\ BrrReset

NextExti ==
    (ExtiFg \/ ExtiIsr \/ ExtiHw) /\ UNCHANGED <<uartVars, adcVars, pwmVars, tickVars, brrVars>>

SpecExti == InitExti /\ [][NextExti]_vars

(***************************************************************************)
(* The EXTI driver with the interrupt taken again: up to MaxRedisp         *)
(* dispatches, one after the other, edges arriving before, during and      *)
(* between them.                                                           *)
(***************************************************************************)
ExtiRedispInputs == IF e_disps < MaxRedisp THEN IrqRanges ELSE {}

ExtiIsrAgain ==
    \/ \E rng \in ExtiRedispInputs : exti_dispatch_call(rng[1], rng[2])
    \/ d_loop
    \/ d_return

NextExtiAgain ==
    (ExtiFg \/ ExtiIsrAgain \/ ExtiHw)
        /\ UNCHANGED <<uartVars, adcVars, pwmVars, tickVars, brrVars>>

SpecExtiAgain == InitExti /\ [][NextExtiAgain]_vars

(***************************************************************************)
(* exti_dispatch with arguments other than the ones irq_handlers.c passes: *)
(* ranges beyond line 15, beyond bit 31, empty ranges, ranges ending at    *)
(* 255; pending bits of the internal lines 16 and 22 besides line 13;      *)
(* either treatment of a shift by 32 and more, either content of the       *)
(* memory behind the tables.                                               *)
(* Edges arrive between dispatches.                                        *)
(***************************************************************************)
WideRanges == {<<10, 15>>, <<0, 22>>, <<16, 16>>, <<40, 30>>, <<30, 48>>,
               <<250, 254>>, <<0, 255>>}

WideLines == {13, 16, 22}

ExtiWideFg ==
    \/ \E line \in (IF e_regs < MaxReg THEN {13, 16} ELSE {}) :
           exti_register_call(line, "cbA", "argA")
    \/ r_arg
    \/ r_return

ExtiWideIsr ==
    \/ \E rng \in (IF e_disps < MaxDisp THEN WideRanges ELSE {}) :
           exti_dispatch_call(rng[1], rng[2])
    \/ d_visits < MaxVisits /\ d_loop
    \/ d_return

ExtiWideHw ==
    \E line \in (IF e_edges < MaxEdges THEN WideLines ELSE {}) :
        d_pc = "idle" /\ EdgeLatch(line)

NextExtiWide ==
    (ExtiWideFg \/ ExtiWideIsr \/ ExtiWideHw)
        /\ UNCHANGED <<uartVars, adcVars, pwmVars, tickVars, brrVars>>

InitExtiWide ==
    /\ UartReset(2 ^ BufBits)
    /\ AdcReset(ADC_MODE_SINGLE)
    /\ ExtiTablesReset /\ exti_env \in ExtiEnvs
    /\ PwmReset
    /\ TickReset
    /\ BrrReset

SpecExtiWide == InitExtiWide /\ [][NextExtiWide]_vars

(***************************************************************************)
(* The PWM driver: configurations around the project's (16 MHz, 1 kHz,     *)
(* center-aligned, three pins), target frequencies on both sides of 2^31,  *)
(* duties on both sides of 10000.                                          *)
(***************************************************************************)
SYSCLK_HZ == 16000000
TimClks == {0, SYSCLK_HZ, 2 * U16, 84000000}
PwmHzs == {<<0, 0>>, <<0, 1>>, <<0, 100>>, <<0, 1000>>, <<61, 2304>>,
           <<U16 \div 2, 0>>, <<U16 \div 2, 1000>>}
AllPins == [ch \in PWM_CHANNELS |-> "ok"]
PinChoices == {AllPins, [ch \in PWM_CHANNELS |-> "NULL"],
               [ch \in PWM_CHANNELS |-> IF ch = 2 THEN "ok" ELSE "NULL"],
               [ch \in PWM_CHANNELS |-> IF ch = 2 THEN "bad" ELSE "ok"]}
PwmCfgs ==
    {[ptr |-> "PWM_CFG", tim_clk_hz |-> c, pwm_hz |-> h, align |-> 1,
      pins |-> AllPins] : c \in TimClks, h \in PwmHzs}
    \cup {[ptr |-> q, tim_clk_hz |-> SYSCLK_HZ, pwm_hz |-> <<0, 1000>>,
           align |-> a, pins |-> p] :
              q \in {"PWM_CFG"}, a \in 0 .. 4, p \in PinChoices}
    \cup {[ptr |-> "NULL", tim_clk_hz |-> 0, pwm_hz |-> <<0, 0>>, align |-> 0,
           pins |-> [ch \in PWM_CHANNELS |-> "NULL"]]}
PwmHandles == {"PWM_H", "NULL"}
DutySamples == {0, 1, 5000, 9999, 10000, 10001, U16 - 1}
ChannelSamples == 0 .. 4

PwmMayCall == p_calls < MaxPwmCalls

PwmFg ==
    \/ \E cfg \in PwmCfgs, h \in PwmHandles :
           PwmMayCall /\ pwm_tim1_init_call(cfg, h)
    \/ p_div
    \/ p_loop
    \/ p_moe
    \/ \E h \in PwmHandles, ch \in {1, 4}, d \in {4000, U16 - 1} :
           PwmMayCall /\ pwm_tim1_set_duty(h, ch, d)
    \/ \E h \in PwmHandles, ch \in ChannelSamples, d \in DutySamples :
           PwmMayCall /\ pwm_set_duty_permyriad(h, ch, d)
    \/ \E h \in PwmHandles : PwmMayCall /\ pwm_tim1_start(h)
    \/ s_cen
    \/ \E h \in PwmHandles : PwmMayCall /\ pwm_tim1_stop(h)
    \/ t_moe
    \/ p_return

InitPwm ==
    /\ UartReset(2 ^ BufBits)
    /\ AdcReset(ADC_MODE_SINGLE)
    /\ ExtiReset
    /\ PwmReset
    /\ TickReset
    /\ BrrReset

NextPwm == PwmFg /\ UNCHANGED <<uartVars, adcVars, extiVars, tickVars, brrVars>>

SpecPwm == InitPwm /\ [][NextPwm]_vars

(***************************************************************************)
(* The SysTick driver: clocks and tick periods on both sides of the        *)
(* 24-bit reload range (16 MHz with 1000 us gives 16000 cycles), products  *)
(* above 2^32, tick counts on both sides of the 32-bit wrap.               *)
(***************************************************************************)
MaxU32 == <<U8 - 1, U8 - 1, U8 - 1, U8 - 1>>
TickClkPeriods ==
    {<<Limbs(SYSCLK_HZ, 4), Limbs(p, 4)>> :
         p \in {0, 500, 1000, 16 * U16, 16 * U16 + 1}}
    \cup {<<Limbs(SYSCLK_HZ, 4), MaxU32>>, <<Limbs(0, 4), Limbs(1000, 4)>>,
          <<Limbs(1000000, 4), Limbs(1, 4)>>,
          <<Limbs(999999, 4), Limbs(1, 4)>>,
          <<MaxU32, Limbs(1, 4)>>, <<MaxU32, MaxU32>>}
TickCfgs ==
    {[ptr |-> "SYSTICK_CFG", sysclk_hz |-> cp[1], tick_period_us |-> cp[2],
      irq_prio |-> 0] : cp \in TickClkPeriods}
    \cup {NoCfg}
TickHandles == {"SYSTICK_H", "NULL"}
\* 1, 99 and 2^32 - 99 tick periods
TickBursts == {Limbs(1, 4), Limbs(99, 4), Sub(Limbs(0, 4), Limbs(99, 4), 4)}
\* counter values and advances of w bytes, up to 2^(8w) - 1
ElapsedSamples(w) ==
    {Limbs(0, w), Limbs(1, w), Limbs(1000, w),
     Sub(Limbs(0, w), Limbs(2, w), w), Sub(Limbs(0, w), Limbs(1, w), w)}

TickMayCall == k_calls < MaxTickCalls
TickMayIrq == k_irqs < MaxTickIrqs

TickFg ==
    \/ /\ k_pc = "idle" /\ k_calls < MaxTickInits
       /\ \E cfg \in TickCfgs, h \in TickHandles : SYSTICK_Init(cfg, h)
    \/ TickMayCall /\ SYSTICK_GetTick
    \/ TickMayCall /\ SYSTICK_GetTimeMs
    \/ TickMayCall /\ SYSTICK_GetTimeUs_call
    \/ u_t1
    \/ u_val
    \/ u_t2
    \/ u_fb
    \/ /\ k_pc = "idle" /\ k_calls = 0
       /\ \E w \in {4, 8} : \E s \in ElapsedSamples(w), d \in ElapsedSamples(w) :
              SYSTICK_Elapsed(w, s, d)
    \/ SYSTICK_ElapsedSince
    \/ \E keep \in BOOLEAN : (keep => k_mark = NoMark) /\ k_return(keep)

TickIsr ==
    \/ TickMayIrq /\ SYSTICK_IrqHandler
    \/ TickMayIrq /\ \E k \in TickBursts : SysTickPeriods(k)

TickHw ==
    \/ ValObserved /\ \E v \in ValSamples(syst_load) : SysTickCount(v)
    \/ SysTickReload

InitTick ==
    /\ UartReset(2 ^ BufBits)
    /\ AdcReset(ADC_MODE_SINGLE)
    /\ ExtiReset
    /\ PwmReset
    /\ TickReset
    /\ BrrReset

NextTick ==
    (TickFg \/ TickIsr \/ TickHw)
    /\ UNCHANGED <<uartVars, adcVars, extiVars, pwmVars, brrVars>>

SpecTick == InitTick /\ [][NextTick]_vars

(***************************************************************************)
(* SYSTICK_GetTimeUs under tick interrupts: the project's 16 MHz clock     *)
(* with 1000 us and 500 us ticks and a configuration SYSTICK_Init rejects  *)
(* (999999 Hz with 1 us: no cycle per tick); up to MaxUsIrqs tick          *)
(* interrupts, taken at once or left pending, at any point of the call.    *)
(***************************************************************************)
UsCfgs ==
    {[ptr |-> "SYSTICK_CFG", sysclk_hz |-> Limbs(SYSCLK_HZ, 4),
      tick_period_us |-> Limbs(p, 4), irq_prio |-> 0] : p \in {500, 1000}}
    \cup {[ptr |-> "SYSTICK_CFG", sysclk_hz |-> Limbs(999999, 4),
           tick_period_us |-> Limbs(1, 4), irq_prio |-> 0]}

TickUsFg ==
    \/ /\ k_pc = "idle" /\ k_calls < MaxTickInits
       /\ \E cfg \in UsCfgs : SYSTICK_Init(cfg, "SYSTICK_H")
    \/ TickMayCall /\ SYSTICK_GetTimeUs_call
    \/ u_t1
    \/ u_val
    \/ u_t2
    \/ u_fb
    \/ \E keep \in BOOLEAN : (keep => k_mark = NoMark) /\ k_return(keep)

TickUsIsr ==
    \/ k_irqs < MaxUsIrqs /\ SYSTICK_IrqHandler
    \/ k_irqs < MaxUsIrqs /\ SysTickPeriods(Limbs(1, 4))

NextTickUs ==
    (TickUsFg \/ TickUsIsr \/ TickHw)
    /\ UNCHANGED <<uartVars, adcVars, extiVars, pwmVars, brrVars>>

SpecTickUs == InitTick /\ [][NextTickUs]_vars

(***************************************************************************)
(* baud_rate_config as a function of its argument: peripheral clocks from  *)
(* 0 to 2^32 - 1 (the project's 16 MHz among them) and baud rates from 0   *)
(* to 2^28, on both sides of the largest baud rate whose 16-fold fits 32   *)
(* bits (2^28 - 1); pairs that round up into the mantissa (47 / 3).        *)
(***************************************************************************)
PclkSamples ==
    {Limbs(n, 4) : n \in {0, 1, 47, 8000000, SYSCLK_HZ, 42000000, 84000000}}
    \cup {Word(U16 \div 2, 0), Word(U16 - 1, U16 - 17), Word(U16 - 1, U16 - 1)}

BaudSamples ==
    {Limbs(n, 4) : n \in {0, 1, 3, 9600, 115200, 921600, 1000000}}
    \cup {Word(2048, 0), Word(4095, U16 - 1), Word(4096, 0)}

BaudCfgs ==
    {[ptr |-> "USART_CFG", usart_pclk_hz |-> c, usart_baud |-> b] :
        c \in PclkSamples, b \in BaudSamples}
    \cup {NoBaudCfg}

InitBaud ==
    /\ UartReset(2 ^ BufBits)
    /\ AdcReset(ADC_MODE_SINGLE)
    /\ ExtiReset
    /\ PwmReset
    /\ TickReset
    /\ b_pc = "idle" /\ b_cfg \in BaudCfgs /\ b_ret = Limbs(0, 4)

NextBaud ==
    baud_rate_config
    /\ UNCHANGED <<uartVars, adcVars, extiVars, pwmVars, tickVars>>

SpecBaud == InitBaud /\ [][NextBaud]_vars

(***************************************************************************)
(* The three drivers that share state between an interrupt handler and     *)
(* the foreground (USART2, ADC, SysTick).  The drivers have no state in    *)
(* common, so each behaviour exercises one of them, under every placement  *)
(* of its handler among the steps of its foreground operations.            *)
(***************************************************************************)
UartActive == "UE" \in cr1
AdcActive == adc_ev # "reset"
TickActive == k_calls > 0 \/ k_irqs > 0

\* the ADC mode matters to the ADC driver only
SharedUart ==
    /\ adc_mode = ADC_MODE_SINGLE
    /\ ~AdcActive /\ ~TickActive /\ (UartFg \/ UartIsr)
    /\ UNCHANGED <<adcVars, extiVars, pwmVars, tickVars, brrVars>>

SharedAdc ==
    /\ ~UartActive /\ ~TickActive
    /\ (AdcFg \/ adc_hw_complete \/ adc_irq_handler)
    /\ UNCHANGED <<extiVars, pwmVars, tickVars, brrVars>>

SharedTick ==
    /\ adc_mode = ADC_MODE_SINGLE
    /\ pc = "reset" /\ (TickFg \/ TickIsr \/ TickHw)
    /\ UNCHANGED <<uartVars, adcVars, extiVars, pwmVars, brrVars>>

InitShared ==
    /\ UartReset(2 ^ BufBits)
    /\ \E mode \in {ADC_MODE_CONTINUOUS, ADC_MODE_SINGLE} : AdcReset(mode)
    /\ ExtiReset
    /\ PwmReset
    /\ TickReset
    /\ BrrReset

NextShared == SharedUart \/ SharedAdc \/ SharedTick

SpecShared == InitShared /\ [][NextShared]_vars

(***************************************************************************)
(* All five drivers, one per behaviour: the foreground operations of each  *)
(* under every placement of its interrupt handler and hardware events.     *)
(***************************************************************************)
ExtiActive == e_regs > 0 \/ e_edges > 0 \/ e_disps > 0
PwmActive == p_calls > 0

DriversExti ==
    /\ adc_mode = ADC_MODE_SINGLE /\ pc = "reset"
    /\ ~TickActive /\ ~PwmActive
    /\ (ExtiFg \/ ExtiIsr \/ ExtiHw)
    /\ UNCHANGED <<uartVars, adcVars, pwmVars, tickVars, brrVars>>

DriversPwm ==
    /\ adc_mode = ADC_MODE_SINGLE /\ pc = "reset"
    /\ ~TickActive /\ ~ExtiActive
    /\ PwmFg
    /\ UNCHANGED <<uartVars, adcVars, extiVars, tickVars, brrVars>>

NextDrivers ==
    \/ ~ExtiActive /\ ~PwmActive /\ SharedUart
    \/ ~ExtiActive /\ ~PwmActive /\ SharedAdc
    \/ ~ExtiActive /\ ~PwmActive /\ SharedTick
    \/ DriversExti
    \/ DriversPwm

SpecDrivers == InitShared /\ [][NextDrivers]_vars

(***************************************************************************)
(* C1: for both ring buffers the bytes popped are a prefix of the bytes    *)
(* pushed, under every placement of the handler between two foreground     *)
(* accesses; moreover every pushed byte is either popped or still stored,  *)
(* in order (nothing lost, duplicated, reordered or overwritten).          *)
(***************************************************************************)
\* the byte usart2_write has stored but not yet published through head
TxInFlight == IF pc = "w_adv" THEN <<tx.buf[f_head]>> ELSE <<>>

\* bytes usart2_read has consumed by advancing tail
RxConsumed ==
    IF pc = "r_adv" THEN SubSeq(rxPopped, 1, Len(rxPopped) - 1) ELSE rxPopped

C2_DropExact ==
    (pc = "done" /\ op.name = "write") =>
        /\ ret <= op.len
        /\ tx.drop_cnt = pre.tx.drop_cnt + (op.len - ret)

(***************************************************************************)
(* C2 (amended): a completed usart2_write returned n <= len and raised the *)
(* 16-bit TX drop counter by (len - n) modulo 2^16; writing FullLen bytes  *)
(* into the empty, undrained full-size buffer returns at most size - 1.    *)
(***************************************************************************)
C2_DropMod16 ==
    (pc = "done" /\ op.name = "write") =>
        /\ ret <= op.len
        /\ tx.drop_cnt = (pre.tx.drop_cnt + (op.len - ret)) % U16
        /\ (Scripted /\ op.len = FullLen) =>
               (ret <= UART_BUFFER_SIZE - 1 /\ tx.drop_cnt = FullLen - ret)

C2_Witness ==
    /\ pc = "done" /\ op.name = "write" /\ Scripted
    /\ ret = UART_BUFFER_SIZE - 1 /\ tx.drop_cnt = FullLen - ret

(***************************************************************************)
(* C3: after usart2_init head and tail of both buffers stay in             *)
(* 0..size-1 and at most size-1 bytes are stored; with no draining exactly *)
(* size-1 pushes are accepted and the next one is rejected.                *)
(***************************************************************************)
Count(rb) == (rb.head - rb.tail + bufSize) % bufSize

C3_Capacity ==
    pc # "reset" =>
        /\ {rx.head, rx.tail, tx.head, tx.tail} \subseteq 0..(bufSize - 1)
        /\ Count(rx) <= bufSize - 1 /\ Count(tx) <= bufSize - 1
        /\ Len(Contents(rx)) = Count(rx) /\ Len(Contents(tx)) = Count(tx)
        /\ (rxPopped = <<>>) => Len(rxPushed) = Min(rxRecv, bufSize - 1)
        /\ (txWire = <<>> /\ pc = "done" /\ op.name = "write") =>
               Len(txPushed) = Min(txOffered, bufSize - 1)

C3_Witness ==
    /\ Scripted /\ rxPopped = <<>>
    /\ Len(rxPushed) = UART_BUFFER_SIZE - 1
    /\ rx.drop_cnt = FullRxExtra + 1
    /\ Len(txPushed) = UART_BUFFER_SIZE - 1

AdcReadDone == pc = "done" /\ op.name = "adc_read"

C5_Handshake ==
    /\ adc_ok <= adc_seen
    /\ (AdcReadDone /\ adc_seen = 0) => ret = FALSE
    /\ (AdcReadDone /\ ~isrInCall /\ op.h # "NULL" /\ op.outp # "NULL") =>
           /\ (ret = TRUE) <=> (pre.ev = "eoc")
           /\ (ret = TRUE) => out = pre.last

C5_Witness ==
    /\ AdcReadDone /\ ~isrInCall /\ op.outp # "NULL" /\ op.h # "NULL"
    /\ ret = FALSE /\ pre.ev = "read_ok" /\ adc_ok = 1 /\ adc_seen = 1

(***************************************************************************)
(* C6: an adc_read that returns failure (nothing ready, or an invalid      *)
(* pointer) has changed neither the ready flag nor the stored value nor    *)
(* the caller's output; one that returns success has cleared the ready     *)
(* flag and written the stored value to the output.                        *)
(***************************************************************************)
C6_ReadFrame ==
    /\ [](AdcReadDone =>
            /\ (op.h = "NULL" \/ op.outp = "NULL") => ret = FALSE
            /\ (ret = FALSE) => out = pre.out
            /\ (ret = FALSE /\ ~isrInCall) =>
                   (adc_data_ready = pre.ready /\ last_reading = pre.last)
            /\ (ret = TRUE /\ ~isrInCall) =>
                   (~adc_data_ready /\ out = pre.last
                    /\ last_reading = pre.last))
    /\ [][(pc # "done" /\ pc' = "done" /\ op'.name = "adc_read") =>
            IF ret' = FALSE
            THEN UNCHANGED <<adc_data_ready, last_reading>>
                 /\ out' = pre'.out
            ELSE ~adc_data_ready' /\ last_reading' = last_reading]_vars

C6_Witness ==
    /\ AdcReadDone /\ ret = FALSE /\ op.outp = "NULL"
    /\ adc_data_ready /\ last_reading # 0 /\ out = NoValue

(***************************************************************************)
(* C7: a completed exti_register(line, cb, arg) with line > 15 returned    *)
(* failure and left both 16-entry tables as they were at entry; with       *)
(* line <= 15 it returned success, entry [line] holds (cb, arg) whatever   *)
(* was registered before, and the other 15 entries are as at entry; so     *)
(* registering a pair that is already registered leaves the tables as they *)
(* were.                                                                   *)
(***************************************************************************)
C7_Register ==
    r_pc = "done" =>
        IF r_op.line > 15
        THEN /\ r_ret = FALSE
             /\ callbk_array = r_pre.cb /\ callbk_arg_array = r_pre.arg
        ELSE /\ r_ret = TRUE
             /\ callbk_array[r_op.line] = r_op.cb
             /\ callbk_arg_array[r_op.line] = r_op.arg
             /\ \A l \in EXTI_LINES \ {r_op.line} :
                    /\ callbk_array[l] = r_pre.cb[l]
                    /\ callbk_arg_array[l] = r_pre.arg[l]
             /\ (r_pre.cb[r_op.line] = r_op.cb
                 /\ r_pre.arg[r_op.line] = r_op.arg) =>
                    /\ callbk_array = r_pre.cb
                    /\ callbk_arg_array = r_pre.arg

\* the second registration of ("cbA", "argA") for line 13, with another
\* line's entry empty
C7_Witness ==
    /\ r_pc = "done" /\ r_ret = TRUE /\ e_regs = 2
    /\ r_op = [line |-> 13, cb |-> "cbA", arg |-> "argA"]
    /\ r_pre.cb[13] = "cbA" /\ r_pre.arg[13] = "argA"
    /\ callbk_array[9] = "NULL"

(***************************************************************************)
(* C8: when exti_dispatch(first, last) with 0 <= first <= last <= 15 has   *)
(* finished, the callbacks it invoked are exactly those registered for the *)
(* lines of [first, last] that were pending at entry, each once, in line   *)
(* order, with the registered argument; the pending register holds the     *)
(* bits that were pending at entry outside [first, last] and the bits the  *)
(* hardware set during the dispatch, so every line of the range that was   *)
(* pending at entry was cleared, with or without a callback, and no line   *)
(* outside the range was cleared or invoked.                               *)
(***************************************************************************)
DispatchRange == d_op.first .. d_op.last

DispatchHits ==
    {l \in DispatchRange : l \in d_pre.pr /\ d_pre.cb[l] # "NULL"}

C8_Dispatch ==
    (d_pc = "done" /\ 0 <= d_op.first /\ d_op.first <= d_op.last
     /\ d_op.last <= 15) =>
        /\ Len(d_invoked) = Cardinality(DispatchHits)
        /\ \A i \in 1 .. Len(d_invoked) :
               /\ d_invoked[i][1] \in DispatchHits
               /\ d_invoked[i][2] = d_pre.cb[d_invoked[i][1]]
               /\ d_invoked[i][3] = d_pre.arg[d_invoked[i][1]]
               /\ \A j \in 1 .. Len(d_invoked) :
                      i < j => d_invoked[i][1] < d_invoked[j][1]
        /\ exti_pr = (d_pre.pr \ DispatchRange) \cup d_latched
        /\ callbk_array = d_pre.cb /\ callbk_arg_array = d_pre.arg

\* dispatch(10, 15) with line 13 pending and registered, line 14 pending
\* and not registered, line 9 pending outside the range
C8_Witness ==
    /\ d_pc = "done" /\ d_op = [first |-> 10, last |-> 15]
    /\ d_pre.pr = {9, 13, 14} /\ d_latched = {}
    /\ d_pre.cb[13] = "cbA" /\ d_pre.cb[14] = "NULL"
    /\ d_invoked = << <<13, "cbA", "argA">> >>
    /\ exti_pr = {9}

(***************************************************************************)
(* C9 (as stated): after a successful pwm_tim1_init the programmed         *)
(* prescaler is the smallest p in [0, 65535] with                          *)
(* floor(halfTicks / (p + 1)) <= 65535, where halfTicks is the exact       *)
(* floor(counterClock / (2 * targetFreq)), and the stored and the          *)
(* programmed auto-reload are floor(halfTicks / (p + 1)) - 1; counterClock *)
(* 16000000 with targetFreq 1000 gives prescaler 0 and auto-reload 7999.   *)
(***************************************************************************)
InitSucceeded == p_pc = "done" /\ p_op.name = "pwm_tim1_init" /\ p_ret

\* floor(counterClock / (2 * targetFreq)) in unbounded arithmetic, for
\* counterClock < 2^31
ExactHalfTicks(clk, hz) ==
    IF hz[1] >= U16 \div 4 THEN 0 ELSE clk \div (2 * Val32(hz))

PscFits(halfTicks, q) == halfTicks \div (q + 1) <= U16 - 1

InitMatches(halfTicks) ==
    /\ PscFits(halfTicks, tim1_psc)
    /\ \A q \in 0 .. tim1_psc - 1 : ~PscFits(halfTicks, q)
    /\ tim1_arr = halfTicks \div (tim1_psc + 1) - 1
    /\ pwm_arr = tim1_arr
    /\ (p_op.cfg.tim_clk_hz = 16000000 /\ p_op.cfg.pwm_hz = <<0, 1000>>) =>
           (tim1_psc = 0 /\ tim1_arr = 7999)

C9_InitPrescaler ==
    InitSucceeded =>
        InitMatches(ExactHalfTicks(p_op.cfg.tim_clk_hz, p_op.cfg.pwm_hz))

(***************************************************************************)
(* C9 (where 2 * targetFreq fits 32 bits): the same, for every successful  *)
(* pwm_tim1_init whose targetFreq is below 2^31.                           *)
(***************************************************************************)
C9_InitPrescalerNoWrap ==
    (InitSucceeded /\ p_op.cfg.pwm_hz[1] < U16 \div 2) =>
        InitMatches(ExactHalfTicks(p_op.cfg.tim_clk_hz, p_op.cfg.pwm_hz))

\* the project's configuration, and one that needs a prescaler above 0
C9_Witness ==
    /\ InitSucceeded
    /\ \/ /\ p_op.cfg.tim_clk_hz = 16000000 /\ p_op.cfg.pwm_hz = <<0, 1000>>
          /\ tim1_psc = 0 /\ tim1_arr = 7999 /\ p_calls = 1
       \/ /\ p_op.cfg.tim_clk_hz = 84000000 /\ p_op.cfg.pwm_hz = <<0, 1>>
          /\ tim1_psc = 640 /\ p_calls = 1

(***************************************************************************)
(* C10: after pwm_set_duty_permyriad(handle, ch, d) with ch in 1..3 the    *)
(* compare register of channel ch holds                                    *)
(* floor(min(d, 10000) * autoReload / 10000); the value lies in            *)
(* [0, autoReload], is 0 for d = 0, is autoReload for d >= 10000; the      *)
(* value computed is non-decreasing in d; autoReload 7999 with d = 5000    *)
(* gives 3999; the other compare registers are as before.                  *)
(***************************************************************************)
C10_DutyPermyriad ==
    (p_pc = "done" /\ p_op.name = "pwm_set_duty_permyriad"
     /\ p_op.h # "NULL" /\ p_op.ch \in 1 .. 3) =>
        LET v == tim1_ccr[p_op.ch]
            d == p_op.duty
        IN  /\ v = (Min(d, 10000) * pwm_arr) \div 10000
            /\ 0 <= v /\ v <= pwm_arr
            /\ (d = 0) => v = 0
            /\ (d >= 10000) => v = pwm_arr
            /\ (pwm_arr = 7999 /\ d = 5000) => v = 3999
            /\ \A d1, d2 \in DutySamples :
                   d1 <= d2 =>
                       PermyriadDuty(d1, pwm_arr) <= PermyriadDuty(d2, pwm_arr)
            /\ \A ch \in PWM_CHANNELS \ {p_op.ch} : tim1_ccr[ch] = p_pre[ch]

C10_Witness ==
    /\ p_pc = "done" /\ p_op.name = "pwm_set_duty_permyriad"
    /\ p_op.h # "NULL" /\ p_op.ch = 2 /\ p_op.duty = 5000
    /\ pwm_arr = 7999 /\ tim1_ccr[2] = 3999

(***************************************************************************)
(* C11 (as stated): pwm_set_duty_permyriad on a channel outside the        *)
(* configured set modifies no compare register: this holds for a channel   *)
(* number outside 1..3, and for a channel in 1..3 whose pin was NULL when  *)
(* pwm_tim1_init configured the timer (its CCxE bit is clear while another *)
(* channel's is set).                                                      *)
(***************************************************************************)
PermyriadDone == p_pc = "done" /\ p_op.name = "pwm_set_duty_permyriad"

C11_NoEffectUnconfigured ==
    (PermyriadDone
     /\ (p_op.ch \notin PWM_CHANNELS
         \/ (tim1_ccer # {} /\ p_op.ch \notin tim1_ccer))) =>
        tim1_ccr = p_pre

(***************************************************************************)
(* C11 (the part the code keeps): pwm_set_duty_permyriad with a channel    *)
(* number outside 1..3, or with a NULL handle, modifies no compare         *)
(* register.                                                               *)
(***************************************************************************)
C11_NoEffectOutOfRange ==
    (PermyriadDone /\ (p_op.ch \notin PWM_CHANNELS \/ p_op.h = "NULL")) =>
        tim1_ccr = p_pre

C11_Witness ==
    /\ PermyriadDone /\ p_op.h # "NULL" /\ p_op.ch = 4 /\ p_op.duty = 5000
    /\ pwm_arr = 7999 /\ tim1_ccer = {2} /\ tim1_ccr = p_pre

(***************************************************************************)
(* C12: SYSTICK_Init on a configuration and a handle succeeds exactly when *)
(* cyclesPerTick = floor(sysclk_hz * tick_period_us / 1000000), taken over *)
(* the exact product, satisfies 1 <= cyclesPerTick <= 2^24; on success     *)
(* LOAD and s_load hold cyclesPerTick - 1 and the tick counter is 0;       *)
(* 16 MHz with 1000 us gives reload 15999.                                 *)
(***************************************************************************)
TickInitDone == k_pc = "done" /\ k_op.name = "SYSTICK_Init"

\* q = floor(p / d) for p of 64 bits: q * d <= p < q * d + d
IsFloorQuot(q, p, d) ==
    LET m == Mul64(q, d)
    IN  ~Less(p, m) /\ Less(Sub(p, m, 8), Cast(d, 8))

\* 1 <= floor(p / 1000000) <= 2^24: 1000000 <= p < (2^24 + 1) * 1000000
CyclesInRange(p) ==
    /\ ~Less(p, Limbs(1000000, 8))
    /\ Less(p, Mul64(Limbs(U8 * U16 + 1, 4), Limbs(1000000, 4)))

C13_TickCount ==
    k_inited =>
        /\ tick_count = Cast(n_irq, 4)
        /\ (k_pc = "done" /\ k_op.name = "SYSTICK_GetTimeMs") =>
               LET p == Mul64(Cast(n_irq, 4), s_cfg.tick_period_us)
                   q == Div64(p, Limbs(1000, 4))
               IN  /\ IsFloorQuot(q, p, Limbs(1000, 4))
                   /\ k_ret = Cast(q, 4)
                   /\ (s_cfg.tick_period_us = Limbs(1000, 4)
                       /\ n_irq = Limbs(100, 5)) => k_ret = Limbs(100, 4)

C13_Witness ==
    /\ k_inited /\ k_pc = "done" /\ k_op.name = "SYSTICK_GetTimeMs"
    /\ s_cfg.tick_period_us = Limbs(1000, 4)
    /\ n_irq = Limbs(100, 5) /\ k_ret = Limbs(100, 4)

(***************************************************************************)
(* C14: SYSTICK_ElapsedMs((s + d) mod 2^32, s) returns d for every start   *)
(* value s and advance d below 2^32, also when s + d has wrapped;          *)
(* SYSTICK_ElapsedUs does the same modulo 2^64.                            *)
(***************************************************************************)
ElapsedDone ==
    k_pc = "done" /\ k_op.name \in {"SYSTICK_ElapsedMs", "SYSTICK_ElapsedUs"}

C14_ElapsedWrap ==
    (ElapsedDone /\ k_op.from = "caller") => k_ret = k_op.d

C14_Witness ==
    /\ ElapsedDone /\ k_op.from = "caller" /\ k_op.name = "SYSTICK_ElapsedMs"
    /\ k_op.wrapped /\ k_op.d = Limbs(1000, 4) /\ k_ret = Limbs(1000, 4)

(***************************************************************************)
(* C15 (as stated): for two SYSTICK_GetTimeMs timestamps taken d tick      *)
(* interrupts apart, with d * tick_period_us / 1000 below 2^31,            *)
(* SYSTICK_ElapsedMs(later, earlier) is the true elapsed time              *)
(* d * tick_period_us up to one quantization step (one tick period plus    *)
(* one millisecond), for every tick period and also when the tick counter  *)
(* wrapped between the two; likewise SYSTICK_ElapsedUs over two            *)
(* SYSTICK_GetTimeUs timestamps.                                           *)
(***************************************************************************)
ElapsedClockDone == ElapsedDone /\ k_op.from = "clock"

\* the true elapsed microseconds, those reported, and the step allowed
TrueUs == Mul64(Cast(k_op.d, 4), s_cfg.tick_period_us)

ReportedUs ==
    IF k_op.name = "SYSTICK_ElapsedMs"
    THEN Mul64(Cast(k_ret, 8), Limbs(1000, 8)) ELSE k_ret

QuantumUs == Add(Cast(s_cfg.tick_period_us, 8), Limbs(1000, 8), 8)

\* |a - b| <= q for 64-bit a and b
Within(a, b, q) == ~Less(q, Sub(a, b, 8)) \/ ~Less(q, Sub(b, a, 8))

\* d fits 32 bits and d * tick_period_us / 1000 < 2^31
ElapsedInRange ==
    /\ k_op.d[5] = 0
    /\ Less(Div64(TrueUs, Limbs(1000, 4)),
            <<0, 0, 0, U8 \div 2, 0, 0, 0, 0>>)

C15_ElapsedClock ==
    (ElapsedClockDone /\ ElapsedInRange) =>
        Within(ReportedUs, TrueUs, QuantumUs)

(***************************************************************************)
(* C15 (the part the code keeps): the same while the 32-bit tick counter   *)
(* did not wrap between the two timestamps.                                *)
(***************************************************************************)
C15_ElapsedClockNoWrap ==
    (ElapsedClockDone /\ ElapsedInRange /\ ~k_op.wrapped) =>
        Within(ReportedUs, TrueUs, QuantumUs)

C15_Witness ==
    /\ ElapsedClockDone /\ ~k_op.wrapped
    /\ k_op.name = "SYSTICK_ElapsedMs"
    /\ s_cfg.tick_period_us = Limbs(500, 4)
    /\ k_op.d = Limbs(99, 5) /\ k_ret \in {Limbs(49, 4), Limbs(50, 4)}

(***************************************************************************)
(* C16 (as stated, for SYSTICK_Init): whenever a configure call returns    *)
(* failure because of an invalid argument - a NULL reference, a zero or    *)
(* out-of-range period - no register and no driver state has been          *)
(* modified: the state after the call equals the state before it.          *)
(***************************************************************************)
C16_FailNoChange ==
    (TickInitDone /\ ~k_ret) => tickRegs = k_pre

(***************************************************************************)
(* C16 (the part the code keeps): SYSTICK_Init that fails on a NULL        *)
(* reference, a zero clock or a zero period has modified nothing.          *)
(***************************************************************************)
C16_FailEarlyNoChange ==
    (TickInitDone
     /\ (k_op.cfg.ptr = "NULL" \/ k_op.h = "NULL"
         \/ IsZero(k_op.cfg.sysclk_hz) \/ IsZero(k_op.cfg.tick_period_us))) =>
        (~k_ret /\ tickRegs = k_pre)

C16_Witness ==
    /\ TickInitDone /\ ~k_ret /\ k_op.cfg.ptr = "NULL"
    /\ k_inited /\ ~IsZero(tick_count) /\ tickRegs = k_pre

(***************************************************************************)
(* C17 (as stated): pwm_tim1_init on a configuration and a handle returns  *)
(* failure whenever counterClockHz = 0, targetFreqHz = 0, the three        *)
(* channel pins are NULL, the alignment is edge-aligned, or                *)
(* halfTicks = floor(counterClock / (2 * targetFreq)) < 2; and a failing   *)
(* call has written no TIM1 register and not changed the handle's          *)
(* auto-reload value.                                                      *)
(***************************************************************************)
PwmInitDone ==
    /\ p_pc = "done" /\ p_op.name = "pwm_tim1_init"
    /\ p_op.cfg.ptr # "NULL" /\ p_op.h # "NULL"

\* the configurations the claim rejects
PwmInitInvalid ==
    \/ p_op.cfg.tim_clk_hz = 0
    \/ p_op.cfg.pwm_hz = <<0, 0>>
    \/ \A ch \in PWM_CHANNELS : p_op.cfg.pins[ch] = "NULL"
    \/ p_op.cfg.align = 0
    \/ ExactHalfTicks(p_op.cfg.tim_clk_hz, p_op.cfg.pwm_hz) < 2

C17_InitRejects ==
    /\ (PwmInitDone /\ PwmInitInvalid) => ~p_ret
    /\ (PwmInitDone /\ ~p_ret) => pwmRegs = p_op.regs
    /\ (p_op.name = "pwm_tim1_init" /\ PwmInitInvalid) => p_pc # "fault"

(***************************************************************************)
(* C17 (the part the code keeps): the same for every targetFreq below      *)
(* 2^31, where 2 * targetFreq fits 32 bits; and every failing              *)
(* pwm_tim1_init leaves the TIM1 registers and the handle as they were.    *)
(***************************************************************************)
C17_InitRejectsNoWrap ==
    /\ (PwmInitDone /\ p_op.cfg.pwm_hz[1] < U16 \div 2 /\ PwmInitInvalid) =>
           ~p_ret
    /\ (p_pc = "done" /\ p_op.name = "pwm_tim1_init" /\ ~p_ret) =>
           pwmRegs = p_op.regs

C17_Witness ==
    /\ PwmInitDone /\ PwmInitInvalid /\ ~p_ret
    /\ p_op.cfg.align = 0
    /\ tim1_moe /\ pwm_arr # 0 /\ pwm_arr = tim1_arr

(***************************************************************************)
(* C20 (as stated): pwm_tim1_start and pwm_tim1_stop switch the counter    *)
(* enable and the output gate together: after a completed start both are   *)
(* enabled, after a completed stop both are disabled, and no reachable     *)
(* state, the intermediate ones included, has exactly one of them enabled. *)
(***************************************************************************)
StartDone ==
    p_pc = "done" /\ p_op.name = "pwm_tim1_start" /\ p_op.h # "NULL"

StopDone ==
    p_pc = "done" /\ p_op.name = "pwm_tim1_stop" /\ p_op.h # "NULL"

C20_GateTogether ==
    /\ StartDone => (p_ret /\ tim1_cen /\ tim1_moe)
    /\ StopDone => (p_ret /\ ~tim1_cen /\ ~tim1_moe)
    /\ tim1_cen = tim1_moe

(***************************************************************************)
(* C20 (the part the code keeps): after a completed start both are         *)
(* enabled, after a completed stop both are disabled, and in every         *)
(* reachable state the counter runs only while the output gate is enabled. *)
(***************************************************************************)
C20_GateBeforeCounter ==
    /\ StartDone => (p_ret /\ tim1_cen /\ tim1_moe)
    /\ StopDone => (p_ret /\ ~tim1_cen /\ ~tim1_moe)
    /\ tim1_cen => tim1_moe

C20_Witness ==
    /\ StopDone /\ ~tim1_cen /\ ~tim1_moe
    /\ tim1_arr = pwm_arr /\ pwm_arr # 0 /\ p_calls = 3

(***************************************************************************)
(* C18 (as stated): after configuration, under any interleaving of         *)
(* handlers and foreground operations, no shared field (the heads, tails   *)
(* and drop counters of the two ring buffers, the ADC ready flag and last  *)
(* value, the tick counter, the UART transmit-interrupt enable) is         *)
(* written from both contexts.  The ready flag is first set by the ADC     *)
(* handler and TXEIE is first set by usart2_write, so each field has the   *)
(* one writer below.                                                       *)
(***************************************************************************)
\* a step of usart2_irq_handler or adc_irq_handler
IsrStep == isrs' # isrs

\* a step of a foreground operation of the USART2 or ADC driver after
\* usart2_init or adc_init
FgStep == pc # "reset" /\ isrs' = isrs /\ adc_convs' = adc_convs

\* a step of usart2_init or adc_init
ConfigStep == pc = "reset" /\ pc' = "idle"

\* a run of SYSTICK_IrqHandler
TickIsrStep == k_irqs' # k_irqs

\* a call of SYSTICK_Init
TickInitStep == k_pc = "idle" /\ k_op'.name = "SYSTICK_Init"

Txeie == "TXEIE" \in cr1

\* the fields with the same writer in the claim and in the code
OwnedFields ==
    /\ (rx.head' # rx.head \/ rx.drop_cnt' # rx.drop_cnt) =>
           (IsrStep \/ ConfigStep)
    /\ tx.tail' # tx.tail => (IsrStep \/ ConfigStep)
    /\ rx.tail' # rx.tail => (FgStep \/ ConfigStep)
    /\ (tx.head' # tx.head \/ tx.drop_cnt' # tx.drop_cnt) =>
           (FgStep \/ ConfigStep)
    /\ last_reading' # last_reading => (IsrStep \/ ConfigStep)
    /\ tick_count' # tick_count => (TickIsrStep \/ TickInitStep)

C18_SingleWriter ==
    [][/\ OwnedFields
       /\ adc_data_ready' # adc_data_ready => (IsrStep \/ ConfigStep)
       /\ Txeie' # Txeie => (FgStep \/ ConfigStep)]_vars

(***************************************************************************)
(* C18 (amended): after configuration every ring-buffer head, tail and     *)
(* drop counter, the ADC last value and the tick counter have one writer   *)
(* context; the ADC ready flag is set only by the handler and cleared      *)
(* only by the foreground, and TXEIE is set only by the foreground and     *)
(* cleared only by the handler.                                            *)
(***************************************************************************)
C18_SetterAndClearer ==
    [][/\ OwnedFields
       /\ (~adc_data_ready /\ adc_data_ready') => IsrStep
       /\ (adc_data_ready /\ ~adc_data_ready') => (FgStep \/ ConfigStep)
       /\ (~Txeie /\ Txeie') => FgStep
       /\ (Txeie /\ ~Txeie') => (IsrStep \/ ConfigStep)]_vars

\* the handler has set the ready flag and adc_read has cleared it, with the
\* handler running inside the call
C18_Witness ==
    /\ pc = "done" /\ op.name = "adc_read" /\ ret = TRUE
    /\ adc_ev = "read_ok" /\ ~adc_data_ready /\ isrInCall /\ adc_seen > 0

(***************************************************************************)
(* C19 (as stated): every foreground operation terminates without waiting  *)
(* on a condition, under any interrupt activity: usart2_write makes at     *)
(* most len loop iterations and usart2_read at most max_len, adc_start,    *)
(* adc_read, the PWM calls and exti_register have no loop that depends on  *)
(* interrupt-written state.  FgRank bounds the steps a call has left; each *)
(* step of the call lowers it, a step is possible whenever no handler is   *)
(* running, and no handler or hardware step moves the foreground.          *)
(***************************************************************************)
\* the steps a USART2 or ADC call has left, at most
UartAdcRank ==
    CASE pc \in {"w_head", "r_head"} -> 4 * (op.len - cnt) + 2
      [] pc \in {"w_tail", "r_tail"} -> 4 * (op.len - cnt) + 1
      [] pc \in {"w_chk", "r_chk"} -> 4 * (op.len - cnt)
      [] pc \in {"w_adv", "r_adv"} -> 4 * (op.len - cnt) - 1
      [] pc = "a_rdy" -> 3
      [] pc \in {"w_epi", "a_copy"} -> 2
      [] pc \in {"w_cr1", "s_sw", "a_clear"} -> 1
      [] OTHER -> 0

\* the steps a PWM call has left: the prescaler loop ends at psc = 0xFFFF
PwmRank ==
    CASE p_pc = "p_div" -> U16 + 2
      [] p_pc = "p_loop" -> U16 - p_psc + 1
      [] p_pc \in {"p_moe", "s_cen", "t_moe"} -> 1
      [] OTHER -> 0

ExtiRank == IF r_pc = "r_arg" THEN 1 ELSE 0

\* SYSTICK_GetTimeUs: three tries of three reads, then the fallback
TickRank ==
    CASE k_pc = "u_t1" -> 3 * (3 - k_i) + 1
      [] k_pc = "u_val" -> 3 * (3 - k_i)
      [] k_pc = "u_t2" -> 3 * (3 - k_i) - 1
      [] k_pc = "u_fb" -> 1
      [] OTHER -> 0

FgRank == UartAdcRank + PwmRank + ExtiRank + TickRank

\* where the foreground is: its position and loop counters
FgPos == <<pc, cnt, p_pc, p_psc, r_pc, k_pc, k_i>>

\* the next step of the call in progress
FgMove ==
    \/ /\ \/ w_head \/ w_tail \/ w_chk \/ w_adv \/ w_epi \/ w_cr1
          \/ r_head \/ r_tail \/ r_chk \/ r_adv
       /\ UNCHANGED <<adcVars, extiVars, pwmVars, tickVars, brrVars>>
    \/ /\ s_sw \/ a_rdy \/ a_copy \/ a_clear
       /\ UNCHANGED <<extiVars, pwmVars, tickVars, brrVars>>
    \/ /\ p_div \/ p_loop \/ p_moe \/ s_cen \/ t_moe
       /\ UNCHANGED <<uartVars, adcVars, extiVars, tickVars, brrVars>>
    \/ r_arg /\ UNCHANGED <<uartVars, adcVars, pwmVars, tickVars, brrVars>>
    \/ /\ u_t1 \/ u_val \/ u_fb \/ (k_t1 # tick_count /\ u_t2)
       /\ UNCHANGED <<uartVars, adcVars, extiVars, pwmVars, brrVars>>

\* SYSTICK_GetTimeUs has read t2 == t1: it computes its result and returns
TimeUsReturns == k_pc = "u_t2" /\ k_t1 = tick_count

\* the call in progress can take a step
CanStep == TimeUsReturns \/ ENABLED FgMove

\* a step of an interrupt handler or of the hardware
HandlerStep ==
    \/ isrs' # isrs \/ adc_convs' # adc_convs
    \/ k_irqs' # k_irqs \/ syst_val' # syst_val
    \/ d_pc' # d_pc \/ d_line' # d_line \/ e_edges' # e_edges

\* the foreground runs: no exti_dispatch is in progress (the other handlers
\* are single steps)
FgRuns == d_pc = "idle"

\* write_cnt and read_cnt stay below len inside the loop
LoopBound ==
    /\ pc \in {"w_head", "w_tail", "w_chk", "w_adv",
               "r_head", "r_tail", "r_chk", "r_adv"} =>
           (cnt < op.len /\ cnt >= 0)
    /\ pc \in {"w_epi", "w_cr1"} => cnt <= op.len
    /\ (pc = "done" /\ op.name \in {"write", "read"}) => ret <= op.len
    /\ p_pc = "p_loop" => p_psc < U16
    /\ k_pc \in {"u_t1", "u_val", "u_t2"} => k_i < 3

Progress ==
    /\ FgPos' # FgPos => (FgRank = 0 \/ (FgRank' < FgRank /\ FgRank' >= 0))
    /\ HandlerStep => FgPos' = FgPos

PwmAtRest == p_pc \in {"idle", "done"}

\* a pwm_tim1_init has programmed the timer
PwmConfigured == tim1_ccer # {}

CompareBounded ==
    PwmAtRest =>
        /\ \A ch \in PWM_CHANNELS : tim1_ccr[ch] <= pwm_arr
        /\ PwmConfigured => pwm_arr = tim1_arr
        /\ ~PwmConfigured => pwm_arr = 0

ArrOnlyByInit ==
    /\ pwm_arr' # pwm_arr => (p_op.name = "pwm_tim1_init" /\ p_pc' = "p_moe")
    /\ p_pc = "p_moe" =>
           /\ p_pc' = "done" /\ p_ret'
           /\ tim1_ccr' = [ch \in PWM_CHANNELS |-> 0]
           /\ pwm_arr' = pwm_arr /\ tim1_arr' = tim1_arr

C21_CompareBounded == []CompareBounded /\ [][ArrOnlyByInit]_vars

\* a duty above the auto-reload value was saturated to it
C21_Witness ==
    /\ p_pc = "done" /\ p_op.name = "pwm_tim1_set_duty" /\ p_ret
    /\ p_op.duty > pwm_arr /\ tim1_ccr[p_op.ch] = pwm_arr
    /\ pwm_arr = tim1_arr /\ pwm_arr > 0

(***************************************************************************)
(* C22 (as stated): adc_init programs CONT as adc_mode_t documents:        *)
(* ADC_MODE_SINGLE leaves CONT = 0, ADC_MODE_CONTINUOUS sets CONT = 1.     *)
(***************************************************************************)
AdcInitDone == adc_ev # "reset"

C22_ContAsDocumented ==
    AdcInitDone => (adc_cont <=> adc_mode = ADC_MODE_CONTINUOUS)

(***************************************************************************)
(* C22 (what the code does): adc_init shifts the enum value into CONT, so  *)
(* CONT = 1 exactly for ADC_MODE_SINGLE (value 1), and conversions repeat  *)
(* after one adc_start exactly in that mode.                               *)
(***************************************************************************)
C22_ContIsEnumValue ==
    /\ AdcInitDone => (adc_cont <=> adc_mode = 1)
    /\ (adc_convs >= 2 /\ calls = 1) => adc_mode = ADC_MODE_SINGLE

\* mode ADC_MODE_SINGLE: one adc_start, two conversions completed
C22_Witness ==
    /\ adc_mode = ADC_MODE_SINGLE /\ AdcInitDone /\ adc_cont
    /\ calls = 1 /\ adc_convs = 2

(***************************************************************************)
(* C23 (as stated): after usart2_init, under any sequence of handler       *)
(* invocations and usart2_read calls, the RX drop counter equals, modulo   *)
(* 2^16, the number of received bytes that were not stored in the RX       *)
(* buffer: one per byte discarded on a line error, one per byte rejected   *)
(* by a full buffer, however many error flags one invocation saw.          *)
(***************************************************************************)
\* bytes read from the data register and not stored in the RX buffer
RxNotEnqueued == rxArrived - Len(rxPushed)

\* error flags counted by the handler, over all invocations
RxErrFlags == err.ore + err.fe + err.ne + err.pe

C23_DropPerByte ==
    pc # "reset" => rx.drop_cnt = RxNotEnqueued % U16

(***************************************************************************)
(* C23 (what the code keeps): the RX drop counter rises by one per error   *)
(* flag set and by one per byte rejected by a full buffer; it equals the   *)
(* number of bytes not stored as long as no invocation saw two error       *)
(* flags at once.                                                          *)
(***************************************************************************)
C23_DropPerFlag ==
    pc # "reset" =>
        /\ rx.drop_cnt = (RxErrFlags + (rxRecv - Len(rxPushed))) % U16
        /\ RxErrFlags = rxErrBytes => rx.drop_cnt = RxNotEnqueued % U16
        /\ RxErrFlags >= rxErrBytes

\* one byte lost to a line error and one to a full buffer
C23_Witness ==
    /\ pc # "reset" /\ rxErrBytes = 1 /\ RxErrFlags = 1
    /\ rxRecv - Len(rxPushed) = 1 /\ rx.drop_cnt = 2

(***************************************************************************)
(* C24: in a usart2_irq_handler invocation that sees at least one of ORE,  *)
(* FE, NE, PE the receive path is not taken: RX head and the RX buffer     *)
(* are unchanged even with RXNE set, the data register is read exactly     *)
(* once, and the transmit path of the same invocation is still evaluated:  *)
(* with TXE and TXEIE set it sends the byte at the TX tail, or clears      *)
(* TXEIE when the TX buffer is empty.                                      *)
(***************************************************************************)
\* what the transmit path does for the status value sr
TxPathTaken(sr) ==
    IF "TXE" \in sr /\ "TXEIE" \in cr1
    THEN IF tx.tail # tx.head
         THEN /\ tx' = [tx EXCEPT !.tail = BitAnd(tx.tail + 1, bufSize - 1)]
              /\ txWire' = Append(txWire, tx.buf[tx.tail])
              /\ cr1' = cr1
         ELSE tx' = tx /\ txWire' = txWire /\ cr1' = cr1 \ {"TXEIE"}
    ELSE tx' = tx /\ txWire' = txWire /\ cr1' = cr1

ErrorExcludesReceive ==
    \A sr \in SUBSET SrFlags :
        (sr \cap ErrFlags # {} /\ usart2_irq_handler(sr)) =>
            /\ rx.head' = rx.head /\ rx.tail' = rx.tail /\ rx.buf' = rx.buf
            /\ rxPushed' = rxPushed
            /\ rxArrived' = rxArrived + 1
            /\ TxPathTaken(sr)

C24_ErrorExcludesReceive == [][ErrorExcludesReceive]_vars

\* one invocation with error flags, RXNE and TXE: the byte is discarded
\* and a queued byte is sent
C24_Witness ==
    /\ isrs = 1 /\ errIsrs = 1 /\ rxArrived = 1 /\ rxPushed = <<>>
    /\ rx.head = 0 /\ Len(txWire) = 1 /\ RxErrFlags = 3

(***************************************************************************)
(* C25: with the USART2 interrupt taken whenever TXE and TXEIE are set,    *)
(* every byte usart2_write accepted is eventually written to the data      *)
(* register, one byte per handler invocation, also when the handler        *)
(* preempts usart2_write inside its loop and drains the buffer; whenever   *)
(* the foreground is not inside usart2_write a non-empty TX buffer has     *)
(* TXEIE set, and the handler clears TXEIE only on an empty TX buffer.     *)
(***************************************************************************)
InWrite == pc \in {"w_head", "w_tail", "w_chk", "w_adv", "w_epi", "w_cr1"}

TxArmed == (~InWrite /\ tx.head # tx.tail) => "TXEIE" \in cr1

TxHandlerStep ==
    isrs' # isrs =>
        /\ Len(txWire') <= Len(txWire) + 1
        /\ ("TXEIE" \in cr1 /\ "TXEIE" \notin cr1') => tx.tail = tx.head

\* the n-th accepted byte reaches the data register
TxDelivered ==
    \A n \in 1 .. MaxCalls * MaxLen :
        (Len(txPushed) >= n) ~> (Len(txWire) >= n /\ txWire[n] = txPushed[n])

C25_TxLiveness == []TxArmed /\ [][TxHandlerStep]_vars /\ TxDelivered

\* the handler ran inside usart2_write, drained the buffer and cleared
\* TXEIE; the bytes of that call were sent all the same
C25_Witness ==
    /\ pc = "idle" /\ calls = 2 /\ Len(txPushed) = 3 /\ txWire = txPushed
    /\ "TXEIE" \notin cr1 /\ isrs >= 5

(***************************************************************************)
(* C26: after a successful usart2_init both ring buffers are empty with    *)
(* head = tail = 0, both drop counters and the four error counters are 0,  *)
(* RXNEIE is set and TXEIE is clear, whatever the handle and CR1 held      *)
(* before; afterwards TXEIE stays clear until a usart2_write that has      *)
(* stored at least one byte sets it.                                       *)
(***************************************************************************)
Usart2InitPost ==
    usart2_init =>
        /\ rx'.head = 0 /\ rx'.tail = 0 /\ rx'.drop_cnt = 0
        /\ tx'.head = 0 /\ tx'.tail = 0 /\ tx'.drop_cnt = 0
        /\ err' = [ore |-> 0, fe |-> 0, ne |-> 0, pe |-> 0]
        /\ "RXNEIE" \in cr1'
        /\ "TXEIE" \notin cr1'

TxeieOffUntilQueued ==
    (pc # "reset" /\ txPushed = <<>>) => "TXEIE" \notin cr1

TxeieSetByWrite ==
    (pc # "reset" /\ "TXEIE" \notin cr1 /\ "TXEIE" \in cr1') =>
        (pc = "w_cr1" /\ op.name = "write" /\ cnt >= 1)

C26_InitPost ==
    /\ []TxeieOffUntilQueued
    /\ [][Usart2InitPost /\ TxeieSetByWrite]_vars

\* usart2_init ran over a handle with moved indices, non-zero counters and
\* TXEIE set; a byte was received since, no byte was ever queued
C26_Witness ==
    /\ pc = "idle" /\ calls = 0
    /\ pre.tx.head = 1 /\ pre.tx.tail = 0 /\ pre.tx.drop_cnt = 1
    /\ pre.rx.head = 1 /\ pre.err.ore = 1 /\ pre.cr1 = {"TXEIE"}
    /\ tx.head = 0 /\ tx.tail = 0 /\ "TXEIE" \notin cr1
    /\ rxRecv >= 1 /\ isrs >= 2

(***************************************************************************)
(* C27: after adc_start has cleared the flag, adc_read fails until          *)
(* adc_irq_handler has observed an end-of-conversion: the flag stays        *)
(* clear while the start is the latest event, a read that tests it then     *)
(* returns failure, and only a handler that finds EOC set raises it.        *)
(***************************************************************************)
ClearUntilObserved == adc_ev = "start" => ~adc_data_ready

ReadFailsAfterStart ==
    (a_rdy /\ adc_ev = "start") => (pc' = "done" /\ ret' = FALSE)

RaisedByHandler ==
    (~adc_data_ready /\ adc_data_ready') => (adc_eoc /\ adc_irq_handler)

C27_FailsUntilObserved ==
    /\ []ClearUntilObserved
    /\ [][ReadFailsAfterStart /\ RaisedByHandler]_vars

\* C27 as stated: a successful adc_read returns a sample whose conversion
\* completed after the latest adc_start cleared the flag (samples carry the
\* number of their conversion)
C27_NoStaleSample ==
    (AdcReadDone /\ ret = TRUE) => out > adc_mark

\* a read after adc_start failed while a completion was waiting for the
\* handler, an earlier sample having been observed before that start
C27_Witness ==
    /\ AdcReadDone /\ ret = FALSE /\ adc_ev = "start"
    /\ adc_eoc /\ adc_seen >= 1 /\ adc_convs > adc_mark

(***************************************************************************)
(* C28: a completion the handler observes while the flag is still set      *)
(* overwrites the stored value and leaves the flag set; the next adc_read  *)
(* (no adc_start since, no handler inside it) succeeds with the latest     *)
(* sample, a sample overwritten before any read copied it is never         *)
(* returned, and the successful reads are at most the observed completions *)
(* less the overwritten ones.                                              *)
(***************************************************************************)
Overwrites ==
    (adc_irq_handler /\ adc_eoc /\ adc_data_ready) =>
        (adc_data_ready' /\ last_reading' = adc_dr % U16)

LatestReturned ==
    (AdcReadDone /\ AdcReadArgsOk(op.h, op.outp) /\ pre.ev = "eoc"
       /\ ~isrInCall) =>
        (ret = TRUE /\ out = pre.last /\ ~adc_data_ready)

OverwrittenNeverReturned ==
    (AdcReadDone /\ ret = TRUE) => out \notin adc_over

OneReadPerKept == adc_ok + Cardinality(adc_over) <= adc_seen

C28_Overwrite ==
    /\ [](LatestReturned /\ OverwrittenNeverReturned /\ OneReadPerKept)
    /\ [][Overwrites]_vars

\* two completions were observed with no read between them, the read that
\* followed returned the second sample and the one after it failed
C28_Witness ==
    /\ AdcReadDone /\ ret = FALSE /\ pre.ev = "read_ok"
    /\ adc_seen = 2 /\ adc_over = {1} /\ adc_ok = 1 /\ last_reading = 2

(***************************************************************************)
(* C29: a sample the handler stores while the foreground is inside         *)
(* adc_read is kept when the store comes before the copy: a read that      *)
(* returns failure leaves the flag set, and the flag is set whenever       *)
(* adc_read is about to copy, so the copy takes the newest stored sample.  *)
(***************************************************************************)
StoredInRead == AdcReadDone /\ adc_seen > pre.seen

C29_KeptBeforeCopy ==
    /\ (StoredInRead /\ ret = FALSE) => adc_data_ready
    /\ pc = "a_copy" => adc_data_ready
    /\ (AdcReadDone /\ ret = TRUE /\ out # last_reading) => isrInCall

\* C29 as stated: when the handler stored a sample inside adc_read, the
\* read returned that sample or the flag is still set
C29_NoSampleConsumed ==
    StoredInRead => (ret = TRUE /\ out = last_reading) \/ adc_data_ready

\* the handler stored sample 2 after adc_read had tested the flag and
\* before it copied: the read returned sample 2
C29_Witness ==
    /\ StoredInRead /\ pre.ready /\ pre.last = 1
    /\ ret = TRUE /\ out = 2 /\ last_reading = 2 /\ ~adc_data_ready

(***************************************************************************)
(* C30: exti_dispatch clears a pending bit only in the iteration that      *)
(* services that line, so a line latched during a dispatch (again on a     *)
(* line already serviced, or on a line that was not pending when EXTI->PR  *)
(* was sampled) is still pending when the dispatch returns, and the next   *)
(* dispatch over that line finds it pending and invokes its callback.      *)
(***************************************************************************)
LineInvoked(l) == \E i \in 1 .. Len(d_invoked) : d_invoked[i][1] = l

LatchedStayPending == d_pc = "done" => d_latched \subseteq exti_pr

ClearedOnlyWhenServiced ==
    \A l \in exti_pr \ exti_pr' :
        d_loop /\ l = d_line /\ l \in d_pending /\ l \in DispatchRange

CarriedServiced ==
    d_pc = "done" =>
        \A l \in d_carried \cap DispatchRange :
            /\ l \in d_pre.pr
            /\ d_pre.cb[l] # "NULL" => LineInvoked(l)
            /\ l \in exti_pr => l \in d_latched

RangeSize == IF d_op.first <= d_op.last THEN d_op.last - d_op.first + 1 ELSE 0

LoopCounts ==
    (d_pc = "d_loop" /\ d_op.last < U8 - 1) =>
        /\ d_visits = d_line - d_op.first
        /\ d_visits <= RangeSize
        /\ ENABLED d_loop

LoopLeaves ==
    (d_pc = "done" /\ d_op.last < U8 - 1) => d_visits = RangeSize

LoopAdvances ==
    (d_loop /\ d_op.last < U8 - 1) =>
        \/ d_pc' = "done" /\ d_visits = RangeSize
        \/ d_pc' = "d_loop" /\ d_visits' = d_visits + 1
              /\ d_visits' <= RangeSize

C31_TerminatesBelow255 ==
    /\ [](LoopCounts /\ LoopLeaves)
    /\ [][LoopAdvances]_vars

\* C31 as stated: for every first, last in 0..255 the loop executes at
\* most one iteration per line of the range
C31_Terminates == d_visits <= RangeSize

\* exti_dispatch(250, 254) has executed its five iterations and left the loop
C31_Witness ==
    /\ d_pc = "done" /\ d_op = [first |-> 250, last |-> 254]
    /\ d_visits = 5 /\ d_line = 255

(***************************************************************************)
(* C32: exti_register stores only at an index in 0..15, and exti_dispatch  *)
(* with last <= 15 reads the tables only at an index in 0..15, whatever    *)
(* the pending register holds (bits 16 and above included).                *)
(***************************************************************************)
RegisterIndexInTable ==
    (callbk_array' # callbk_array \/ callbk_arg_array' # callbk_arg_array) =>
        (r_op'.line \in EXTI_LINES /\ ~RegisterLineInvalid[r_op'.line])

DispatchIndexInTable == d_op.last <= 15 => d_oob = {}

OutsideOnlyBeyond15 == \A l \in d_oob : 15 < l /\ l <= d_op.last

C32_IndexInTableUpTo15 ==
    /\ [](DispatchIndexInTable /\ OutsideOnlyBeyond15)
    /\ [][RegisterIndexInTable]_vars

\* C32 as stated: no access of exti_dispatch uses an index outside 0..15,
\* for any first, last and any pending value
C32_IndexInTable == d_oob = {}

\* exti_dispatch(10, 15) has run with lines 13 and 16 pending: the callback
\* of line 13 was invoked, bit 16 is untouched, no index left the table
C32_Witness ==
    /\ d_pc = "done" /\ d_op = [first |-> 10, last |-> 15]
    /\ d_pre.pr = {13, 16} /\ LineInvoked(13) /\ exti_pr = {16}
    /\ d_oob = {}

(***************************************************************************)
(* C33: a dispatch that runs while no exti_register is between its two     *)
(* stores for the line invokes the callback with the argument of the same  *)
(* registration (the line's entries of both tables); a dispatch that runs  *)
(* between the two stores of exti_register for the line invokes the new    *)
(* callback with the argument the table held before.                       *)
(***************************************************************************)
MidRegister(l) == r_pc = "r_arg" /\ r_op.line = l

InvokedPair(i) == <<d_invoked[i][2], d_invoked[i][3]>>

C33_PairedOutsideRegister ==
    \A i \in 1 .. Len(d_invoked) :
        LET l == d_invoked[i][1] IN
        IF MidRegister(l)
        THEN InvokedPair(i) = <<r_op.cb, r_pre.arg[l]>>
        ELSE InvokedPair(i) = <<callbk_array[l], callbk_arg_array[l]>>

\* C33 as stated: the pair invoked for a line is one registered in one
\* exti_register call, the one in progress or the one completed before it
C33_Paired ==
    \A i \in 1 .. Len(d_invoked) :
        LET l == d_invoked[i][1] IN
        MidRegister(l) =>
            InvokedPair(i) \in {<<r_op.cb, r_op.arg>>,
                                <<r_pre.cb[l], r_pre.arg[l]>>}

\* line 13 was dispatched with its registered pair while exti_register for
\* line 9 was between its two stores
C33_Witness ==
    /\ d_pc = "done" /\ MidRegister(9) /\ r_op.cb = "cbB"
    /\ d_invoked = << <<13, "cbA", "argA">> >>
    /\ callbk_array[9] = "cbB" /\ callbk_arg_array[9] = "NULL"

(***************************************************************************)
(* C34: SYSTICK_GetTimeUs makes at most 3 attempts and returns; with two   *)
(* agreeing tick samples it returns tick * period +                        *)
(* floor((reload - val) * 1000000 / sysclk_hz), with three split attempts  *)
(* tick * period; the sub-tick term is below the tick period when the      *)
(* configuration in use is the one SysTick was programmed with.            *)
(***************************************************************************)
UsDone ==
    k_pc = "done" /\ k_op.name = "SYSTICK_GetTimeUs" /\ s_cfg.ptr # "NULL"

\* what the result adds to tick * period
UsSubTick == Sub(k_ret, Mul64(k_t1, s_cfg.tick_period_us), 8)

UsAttempts ==
    /\ k_i \in 0 .. 3
    /\ k_pc \in {"u_t1", "u_val", "u_t2"} => k_i < 3
    /\ k_pc = "u_fb" => k_i = 3

UsAgreed ==
    (UsDone /\ k_i < 3) =>
        /\ k_t1 = tick_count
        /\ k_val <= s_load
        /\ ~Less(k_ret, Mul64(k_t1, s_cfg.tick_period_us))
        /\ IsFloorQuot(UsSubTick,
                       Mul64(Limbs(s_load - k_val, 4), Limbs(1000000, 4)),
                       s_cfg.sysclk_hz)

UsFallback ==
    (UsDone /\ k_i = 3) => k_ret = Mul64(tick_count, s_cfg.tick_period_us)

UsSubTickBelowPeriod ==
    (UsDone /\ k_i < 3) => Less(UsSubTick, Cast(s_cfg.tick_period_us, 8))

C34_GetTimeUsProgrammed ==
    /\ UsAttempts /\ UsAgreed /\ UsFallback
    /\ k_inited => UsSubTickBelowPeriod

\* C34 as stated: the sub-tick term is always below the tick period
C34_GetTimeUs == UsAttempts /\ UsAgreed /\ UsFallback /\ UsSubTickBelowPeriod

\* three attempts were each split by a tick interrupt: the result is
\* 3 ticks of 1000 us
C34_Witness ==
    /\ UsDone /\ k_i = 3 /\ k_inited /\ tick_count = Limbs(3, 4)
    /\ k_ret = Limbs(3000, 8)

(***************************************************************************)
(* C35: of two successive SYSTICK_GetTimeUs calls (no re-initialisation    *)
(* and no wrap of the tick counter between them) the second returns at     *)
(* least what the first returned whenever the tick count it sampled,       *)
(* times the tick period, lies above the first result: the order of        *)
(* results follows the tick counter, under every placement of reloads and  *)
(* tick interrupts and on the fallback path.                               *)
(***************************************************************************)
UsSecond == UsDone /\ k_mark.name = "SYSTICK_GetTimeUs"

\* the second call sampled a tick that starts after the first result
UsLaterTick == Less(k_mark.val, Mul64(k_t1, s_cfg.tick_period_us))

C35_MonotonicLaterTick ==
    (UsSecond /\ k_inited /\ UsLaterTick) => ~Less(k_ret, k_mark.val)

\* C35 as stated: also within one tick count, when the down-counter has
\* reloaded and the tick interrupt has not yet run
C35_Monotonic == (UsSecond /\ k_inited) => ~Less(k_ret, k_mark.val)

\* the first call returned 999 us at the end of tick 0; tick interrupts
\* ran; the second call fell back to tick precision after three split
\* attempts
C35_Witness ==
    /\ UsSecond /\ k_inited /\ UsLaterTick
    /\ k_mark.val = Limbs(999, 8) /\ k_i = 3 /\ k_ret = Limbs(3000, 8)

(***************************************************************************)
(* C36: for every counterClock and every targetFreq below 2^31, with a     *)
(* center-aligned mode and a channel pin, pwm_tim1_init never divides by   *)
(* zero and its 32-bit half_ticks is the exact                             *)
(* floor(counterClock / (2 * targetFreq)); on success                      *)
(* 1 <= autoReload <= 65535, 0 <= prescaler <= 65535 and                   *)
(* (prescaler + 1) * (autoReload + 1) <= halfTicks, so the generated       *)
(* frequency is not below the requested one.                               *)
(***************************************************************************)
\* the calls the claim is about: both frequencies at least 1, a
\* center-aligned mode, a channel pin
PwmInitInDomain ==
    /\ p_op.name = "pwm_tim1_init"
    /\ p_op.cfg.ptr # "NULL" /\ p_op.h # "NULL"
    /\ p_op.cfg.tim_clk_hz >= 1 /\ p_op.cfg.pwm_hz # <<0, 0>>
    /\ p_op.cfg.align \in 1 .. 3
    /\ \E ch \in PWM_CHANNELS : p_op.cfg.pins[ch] # "NULL"

\* half_ticks holds the quotient of the call in progress
HalfTicksComputed == p_pc \in {"p_loop", "p_moe"} \/ InitSucceeded

HalfTicksOf == ExactHalfTicks(p_op.cfg.tim_clk_hz, p_op.cfg.pwm_hz)

\* counterClock / (2 * (prescaler + 1) * (autoReload + 1)) >= targetFreq
GeneratedNotBelow ==
    /\ p_op.cfg.pwm_hz[1] < U16 \div 2
    /\ p_op.cfg.tim_clk_hz \div (2 * (tim1_psc + 1) * (tim1_arr + 1))
           >= Val32(p_op.cfg.pwm_hz)

InitArithmetic ==
    /\ p_pc # "fault"
    /\ HalfTicksComputed => p_half = HalfTicksOf
    /\ InitSucceeded =>
           /\ tim1_arr \in 1 .. U16 - 1 /\ pwm_arr = tim1_arr
           /\ tim1_psc \in 0 .. U16 - 1
           /\ (tim1_psc + 1) * (tim1_arr + 1) <= HalfTicksOf
           /\ GeneratedNotBelow

C36_InitArithmeticNoWrap ==
    (PwmInitInDomain /\ p_op.cfg.pwm_hz[1] < U16 \div 2) => InitArithmetic

\* C36 as stated: for every targetFreq up to 2^32 - 1
C36_InitArithmetic == PwmInitInDomain => InitArithmetic

\* counterClock 84 MHz, targetFreq 1 Hz: halfTicks 42000000, prescaler
\* 640, auto-reload 65521, 641 * 65522 = 41999602 <= 42000000
C36_Witness ==
    /\ PwmInitInDomain /\ InitSucceeded
    /\ p_op.cfg.tim_clk_hz = 84000000 /\ p_op.cfg.pwm_hz = <<0, 1>>
    /\ p_half = 42000000 /\ tim1_psc = 640 /\ tim1_arr = 65521

(***************************************************************************)
(* C37: for pclk and baud > 0 with 16 * baud below 2^32, and with          *)
(* (pclk mod (16 * baud)) + floor(baud / 2) below 2^32, baud_rate_config   *)
(* returns (fraction & 0xF) | (mantissa << 4) with                         *)
(* mantissa = floor(pclk / (16 * baud)) and                                *)
(* fraction = floor(((pclk mod (16 * baud)) + floor(baud / 2)) / baud),    *)
(* a fraction of 16 carrying into the mantissa; the value returned is      *)
(* floor((pclk + floor(baud / 2)) / baud); 16 MHz at 115200 baud gives     *)
(* 139.                                                                    *)
(***************************************************************************)
\* a 64-bit value below 2^32
Fits32(a) == \A i \in 5 .. 8 : Dig(a, i) = 0

\* the quantities of the claim in arithmetic that does not wrap
ExactPclk == Cast(b_cfg.usart_pclk_hz, 8)
ExactBaud16 == Mul64(Limbs(16, 4), b_cfg.usart_baud)
ExactHalfBaud == Div64(Cast(b_cfg.usart_baud, 8), Limbs(2, 4))
ExactMantissa == Div64(ExactPclk, ExactBaud16)
ExactRem == Sub(ExactPclk, Mul64(ExactMantissa, ExactBaud16), 8)
ExactRounded == Add(ExactRem, ExactHalfBaud, 8)
ExactFraction == Div64(ExactRounded, b_cfg.usart_baud)

\* the calls the claim is about
BaudInDomain ==
    /\ b_pc # "idle" /\ b_cfg.ptr # "NULL"
    /\ ~IsZero(b_cfg.usart_baud) /\ Fits32(ExactBaud16)

\* the quotients above are the floors the claim names
BaudFloors ==
    /\ IsFloorQuot(ExactHalfBaud, Cast(b_cfg.usart_baud, 8), Limbs(2, 4))
    /\ IsFloorQuot(ExactMantissa, ExactPclk, ExactBaud16)
    /\ IsFloorQuot(ExactFraction, ExactRounded, b_cfg.usart_baud)

BrrAsClaimed ==
    /\ b_pc = "done"
    /\ BaudFloors
    /\ ~Less(Limbs(16, 8), ExactFraction)
    /\ Cast(b_ret, 8) =
           IF ExactFraction = Limbs(16, 8)
           THEN Mul64(Add(ExactMantissa, Limbs(1, 8), 8), Limbs(16, 4))
           ELSE Add(Mul64(ExactMantissa, Limbs(16, 4)), ExactFraction, 8)
    /\ IsFloorQuot(Cast(b_ret, 8), Add(ExactPclk, ExactHalfBaud, 8),
                   b_cfg.usart_baud)
    /\ (b_cfg.usart_pclk_hz = Limbs(SYSCLK_HZ, 4)
        /\ b_cfg.usart_baud = Limbs(115200, 4)) => b_ret = Limbs(139, 4)

C37_BrrNoWrap == (BaudInDomain /\ Fits32(ExactRounded)) => BrrAsClaimed

\* C37 as stated: for every pclk and baud > 0 with 16 * baud below 2^32
C37_Brr == BaudInDomain => BrrAsClaimed

\* pclk 47 at baud 3: mantissa 0, remainder 47, fraction (47 + 1) / 3 = 16
\* carries: the value returned is 16 = floor(48 / 3)
C37_Witness ==
    /\ BaudInDomain /\ b_pc = "done"
    /\ b_cfg.usart_pclk_hz = Limbs(47, 4) /\ b_cfg.usart_baud = Limbs(3, 4)
    /\ ExactFraction = Limbs(16, 8) /\ b_ret = Limbs(16, 4)

====
